---------------------------- MODULE Spec2Model ----------------------------
(***************************************************************************)
(* Typography generator: scale generation, size naming, responsive        *)
(* derivation and style-definition assembly.                              *)
(*                                                                         *)
(* Numbers.  The code computes in IEEE doubles.  A running value is kept   *)
(* here as an exact fraction [n, d] (d > 0); sizes, once rounded, are      *)
(* integers.  On every input enumerated below (scales, multipliers, caps,  *)
(* line-height ratios) the double computation and the exact one round to   *)
(* the same sizes: they could differ only where a sample sits within one   *)
(* rounding error of a tie of Math.round, and none does.                   *)
(*                                                                         *)
(* Text.  A string the code builds or inspects is a sequence of            *)
(* one-character strings, so that joining, prefixes and suffixes are       *)
(* computed and not assumed.  An exported text is a sequence of pieces: the *)
(* characters of computed strings and the literals of the source.          *)
(*                                                                         *)
(* Time.  `new Date()` reads the variable now, which Tick advances.        *)
(***************************************************************************)
EXTENDS Integers, Sequences, FiniteSets, TLC

VARIABLES
    pc,         \* position of the running call
    scaleCfg,   \* ScaleConfig handed to generateScale
    value,      \* generateModularScale: the running (unrounded) value
    i,          \* generateLinearScale: the loop counter
    sizes,      \* the sizes array under construction / the size sequence
    category,   \* StyleCategory handed to the namer
    mobileArgs, \* applyMobileScale: [multiplier, rounding, maxCap]
    mobileSizes,\* result of applyMobileScale
    namedSizes, \* result of mapSizesToNames
    config,     \* PluginConfig handed to generateStyleDefinitions
    styles,     \* StyleDefinition[] returned by generateStyleDefinitions
    now,        \* the clock `new Date()` reads, in milliseconds
    exportData, \* the strings the export formatters have returned, call by call
    fonts,      \* the fonts figma.loadFontAsync can load
    localTextStyles, \* figma.getLocalTextStyles(): the document's text styles
    nextId,     \* the id figma gives the next node or style it creates
    pageChildren, \* the children of the page named 'Typography'
    posted,     \* the messages posted to the UI, oldest first
    textStyles, \* generate: let textStyles, the TextStyle[] of createAllTextStyles
    runs        \* the number of 'generate' messages / createSpecimen calls so far

vars == <<pc, scaleCfg, value, i, sizes, category, mobileArgs, mobileSizes,
          namedSizes, config, styles, now, exportData, fonts, localTextStyles, nextId,
          pageChildren, posted, textStyles, runs>>

\* the variables of the host layer
hostVars == <<fonts, localTextStyles, nextId, pageChildren, posted, textStyles, runs>>

-----------------------------------------------------------------------------
(* Bounds of the model *)

\* largest `steps` of a linear scale that is enumerated
MaxSteps == 7

\* longest size sequence handed to the namer
MaxLen == 7

\* last instant of the clock, in milliseconds after the first one
MaxTime == 1

\* number of export formatter calls that are followed
MaxCalls == 2

\* number of 'generate' messages, and of createSpecimen calls, that are followed
MaxRuns == 2

-----------------------------------------------------------------------------
(* Numbers *)

Frac(n, d) == [n |-> n, d |-> d]

\* Math.round(n / d) for d > 0: halves go up (towards +infinity)
MathRound(n, d) == (2 * n + d) \div (2 * d)

\* roundTo(value, multiple) = Math.round(value / multiple) * multiple
roundTo(v, multiple) == MathRound(v.n, v.d * multiple) * multiple

\* value <= k and value > k for a fraction and an integer
FracLeq(v, k) == v.n <= k * v.d
FracGt(v, k) == v.n > k * v.d

RECURSIVE GCD(_, _)
GCD(a, b) == IF b = 0 THEN a ELSE GCD(b, a % b)

Abs(k) == IF k < 0 THEN -k ELSE k

\* the same number in lowest terms
Normalize(v) ==
    LET g == GCD(Abs(v.n), v.d)
    IN  Frac(v.n \div g, v.d \div g)

\* value * ratio, in lowest terms (0 * ratio is 0 again)
Times(v, ratio) == Normalize(Frac(v.n * ratio.n, v.d * ratio.d))

Last(s) == s[Len(s)]

\* sizes.push(rounded) unless it repeats the last element
PushDistinct(s, rounded) ==
    IF Len(s) = 0 \/ rounded /= Last(s) THEN Append(s, rounded) ELSE s

-----------------------------------------------------------------------------
(* Scale Generator *)

\* ScaleMethod
ScaleMethods == {"modular", "linear", "tailwind"}

\* the rounding choices of ScaleConfig
Roundings == {1, 2, 4}

\* SCALE_RATIOS that are exact in binary: 1.125, 1.25, 1.5
ModelRatios == {Frac(9, 8), Frac(5, 4), Frac(3, 2)}

\* one pass of the while loop of generateModularScale
ModularBody(cfg, st) ==
    [sizes |-> PushDistinct(st.sizes, roundTo(st.value, cfg.rounding)),
     value |-> Times(st.value, cfg.ratio)]

\* faulty variant of ModularTail: the rounded max is never appended
ModularTail_NoAppend(cfg, s) == s

\* after the loop: include the rounded max when it is not already there
ModularTail(cfg, s) ==
    LET maxRounded == roundTo(Frac(cfg.max, 1), cfg.rounding)
    IN  IF Len(s) > 0 /\ Last(s) < maxRounded THEN Append(s, maxRounded) ELSE s

RECURSIVE ModularLoop(_, _)
ModularLoop(cfg, st) ==
    IF FracLeq(st.value, cfg.max)
    THEN ModularLoop(cfg, ModularBody(cfg, st))
    ELSE st.sizes

generateModularScale(cfg) ==
    ModularTail(cfg, ModularLoop(cfg, [sizes |-> <<>>, value |-> Frac(cfg.min, 1)]))

MathMax(a, b) == IF a >= b THEN a ELSE b

\* min + i * stepSize with stepSize = (max - min) / Math.max(steps - 1, 1)
LinearValue(cfg, k) ==
    LET den == MathMax(cfg.steps - 1, 1)
    IN  Frac(cfg.min * den + k * (cfg.max - cfg.min), den)

\* faulty variant of LinearBody: every sample is pushed, repeated or not
LinearBody_NoDedup(cfg, k, s) == Append(s, roundTo(LinearValue(cfg, k), cfg.rounding))

\* one pass of the for loop of generateLinearScale
LinearBody(cfg, k, s) == PushDistinct(s, roundTo(LinearValue(cfg, k), cfg.rounding))

RECURSIVE LinearLoop(_, _, _)
LinearLoop(cfg, k, s) ==
    IF k < cfg.steps THEN LinearLoop(cfg, k + 1, LinearBody(cfg, k, s)) ELSE s

generateLinearScale(cfg) == LinearLoop(cfg, 0, <<>>)

tailwindSizes == <<12, 14, 16, 18, 20, 24, 30, 36, 48, 60, 72, 96, 128>>

\* faulty variant of TailwindKeeps: the lower end of the range is exclusive
TailwindKeeps_ExclusiveMin(cfg, size) == size > cfg.min /\ size <= cfg.max

TailwindKeeps(cfg, size) == size >= cfg.min /\ size <= cfg.max

generateTailwindScale(cfg) ==
    SelectSeq(tailwindSizes, LAMBDA size : TailwindKeeps(cfg, size))

generateScale(cfg) ==
    CASE cfg.method = "modular" -> generateModularScale(cfg)
      [] cfg.method = "linear" -> generateLinearScale(cfg)
      [] cfg.method = "tailwind" -> generateTailwindScale(cfg)
      [] OTHER -> generateModularScale(cfg)

-----------------------------------------------------------------------------
(* Text: a string the code builds or inspects is a sequence of one-character
   strings; a string it only copies (a font family, an enumeration tag) is a
   TLA+ string *)

UpperCase == <<"A", "B", "C", "D", "E", "F", "G", "H", "I", "J", "K", "L", "M",
               "N", "O", "P", "Q", "R", "S", "T", "U", "V", "W", "X", "Y", "Z">>
LowerCase == <<"a", "b", "c", "d", "e", "f", "g", "h", "i", "j", "k", "l", "m",
               "n", "o", "p", "q", "r", "s", "t", "u", "v", "w", "x", "y", "z">>

LowerOf == [c \in {UpperCase[k] : k \in 1..26} |->
                LowerCase[CHOOSE k \in 1..26 : UpperCase[k] = c]]
UpperOf == [c \in {LowerCase[k] : k \in 1..26} |->
                UpperCase[CHOOSE k \in 1..26 : LowerCase[k] = c]]

\* String.prototype.toLowerCase / toUpperCase, one character at a time
CharToLower(c) == IF c \in DOMAIN LowerOf THEN LowerOf[c] ELSE c
CharToUpper(c) == IF c \in DOMAIN UpperOf THEN UpperOf[c] ELSE c
toLowerCase(str) == [k \in 1..Len(str) |-> CharToLower(str[k])]
toUpperCase(str) == [k \in 1..Len(str) |-> CharToUpper(str[k])]

\* str.startsWith(prefix), str.endsWith(suffix)
startsWith(str, prefix) ==
    Len(prefix) <= Len(str) /\ SubSeq(str, 1, Len(prefix)) = prefix
endsWith(str, suffix) ==
    Len(suffix) <= Len(str)
    /\ SubSeq(str, Len(str) - Len(suffix) + 1, Len(str)) = suffix

\* the value of an array element past the end, or of an omitted argument
undefined == <<"undefined">>

\* Array.prototype.join renders undefined as the empty string
JoinText(x) == IF x = undefined THEN <<>> ELSE x

RECURSIVE Join(_, _)
\* parts.join(sep)
Join(parts, sep) ==
    IF Len(parts) = 0 THEN <<>>
    ELSE IF Len(parts) = 1 THEN JoinText(parts[1])
    ELSE JoinText(parts[1]) \o sep \o Join(Tail(parts), sep)

\* decimal digits of a non-negative number, as in `${suffix}`
RECURSIVE NumberToString(_)
NumberToString(k) ==
    LET digit == <<"0", "1", "2", "3", "4", "5", "6", "7", "8", "9">>[(k % 10) + 1]
    IN  IF k < 10 THEN <<digit>> ELSE Append(NumberToString(k \div 10), digit)

\* str.includes(sub)
Includes(str, sub) ==
    \E k \in 1..(Len(str) - Len(sub) + 1) : SubSeq(str, k, k + Len(sub) - 1) = sub

RECURSIVE Split(_, _)
\* str.split(sep) for a one-character separator
Split(str, sep) ==
    IF \E k \in 1..Len(str) : str[k] = sep
    THEN LET k == CHOOSE j \in 1..Len(str) :
                      str[j] = sep /\ \A h \in 1..(j - 1) : str[h] /= sep
         IN  <<SubSeq(str, 1, k - 1)>> \o Split(SubSeq(str, k + 1, Len(str)), sep)
    ELSE <<str>>

RECURSIVE FractionDigits(_, _)
\* the digits after the decimal point of n / d, for 0 <= n < d and a finite expansion
FractionDigits(n, d) ==
    IF n = 0 THEN <<>>
    ELSE NumberToString((n * 10) \div d) \o FractionDigits((n * 10) % d, d)

\* String(number) / `${number}` for a number with a finite decimal expansion
NumberText(v) ==
    LET a == IF v.n < 0 THEN -v.n ELSE v.n
        whole == NumberToString(a \div v.d)
        digits == FractionDigits(a % v.d, v.d)
    IN  (IF v.n < 0 THEN <<"-">> ELSE <<>>) \o whole
        \o (IF digits = <<>> THEN <<>> ELSE <<".">> \o digits)

\* `${k}` for an integer
IntegerText(k) == NumberText([n |-> k, d |-> 1])

-----------------------------------------------------------------------------
(* types *)

Categories == <<"display", "title", "body", "code">>
CategorySet == {"display", "title", "body", "code"}

\* breakpoints; null is the breakpoint of a non-responsive run
desktop == <<"d", "e", "s", "k", "t", "o", "p">>
mobile == <<"m", "o", "b", "i", "l", "e">>
null == <<"null">>

BODY_SIZE_NAMES == <<<<"X", "s">>, <<"S", "m">>, <<"B", "a", "s", "e">>, <<"L", "g">>, <<"X", "l">>, <<"2", "x", "l">>>>
TITLE_SIZE_NAMES == <<<<"H", "6">>, <<"H", "5">>, <<"H", "4">>, <<"H", "3">>, <<"H", "2">>, <<"H", "1">>>>
DISPLAY_SIZE_NAMES == <<<<"D", "3">>, <<"D", "2">>, <<"D", "1">>>>
CODE_SIZE_NAMES == <<<<"X", "s">>, <<"S", "m">>, <<"B", "a", "s", "e">>, <<"L", "g">>>>

DEFAULT_MOBILE_MAX_SIZES == [display |-> 48, title |-> 32, body |-> 20, code |-> 16]

DEFAULT_BODY_CONFIG ==
    [enabled |-> TRUE,
     scale |-> [method |-> "modular", min |-> 12, max |-> 20, ratio |-> Frac(9, 8),
                steps |-> 5, rounding |-> 2],
     lineHeight |-> "normal", fontFamily |-> "Inter",
     weights |-> <<<<"R", "e", "g", "u", "l", "a", "r">>, <<"M", "e", "d", "i", "u", "m">>, <<"S", "e", "m", "i", "b", "o", "l", "d">>>>]

DEFAULT_TITLE_CONFIG ==
    [enabled |-> TRUE,
     scale |-> [method |-> "modular", min |-> 20, max |-> 48, ratio |-> Frac(6, 5),
                steps |-> 6, rounding |-> 2],
     lineHeight |-> "tight", fontFamily |-> "Inter",
     weights |-> <<<<"S", "e", "m", "i", "b", "o", "l", "d">>, <<"B", "o", "l", "d">>>>]

DEFAULT_DISPLAY_CONFIG ==
    [enabled |-> TRUE,
     scale |-> [method |-> "modular", min |-> 40, max |-> 72, ratio |-> Frac(5, 4),
                steps |-> 3, rounding |-> 2],
     lineHeight |-> "tighter", fontFamily |-> "Inter",
     weights |-> <<<<"B", "o", "l", "d">>>>]

DEFAULT_CODE_CONFIG ==
    [enabled |-> TRUE,
     scale |-> [method |-> "linear", min |-> 11, max |-> 16, ratio |-> Frac(9, 8),
                steps |-> 4, rounding |-> 1],
     lineHeight |-> "normal", fontFamily |-> "JetBrains Mono",
     weights |-> <<<<"R", "e", "g", "u", "l", "a", "r">>>>]

\* DEFAULT_CONFIG, the fields the generation pipeline reads
DEFAULT_CONFIG ==
    [categories |-> [body |-> DEFAULT_BODY_CONFIG, title |-> DEFAULT_TITLE_CONFIG,
                     display |-> DEFAULT_DISPLAY_CONFIG, code |-> DEFAULT_CODE_CONFIG],
     responsive |-> [enabled |-> TRUE,
                     mobile |-> [enabled |-> TRUE, scaleMultiplier |-> Frac(875, 1000)],
                     mobileMaxSizes |-> DEFAULT_MOBILE_MAX_SIZES]]

\* LINE_HEIGHT_RATIOS: 1.1, 1.2, 1.5, 1.65
LINE_HEIGHT_RATIOS ==
    [tighter |-> Frac(11, 10), tight |-> Frac(12, 10), normal |-> Frac(15, 10),
     relaxed |-> Frac(165, 100)]

-----------------------------------------------------------------------------
(* Size Namer *)

MathMin(a, b) == IF a <= b THEN a ELSE b

\* arr.slice(start, end) with 0-based start and exclusive end, end clamped
Slice(arr, start, end) == SubSeq(arr, start + 1, MathMin(end, Len(arr)))

\* arr.reverse()
Reverse(arr) == [k \in 1..Len(arr) |-> arr[Len(arr) + 1 - k]]

\* arr.indexOf(x), 0-based, -1 when absent
IndexOf(arr, x) ==
    IF \E k \in 1..Len(arr) : arr[k] = x
    THEN (CHOOSE k \in 1..Len(arr) : arr[k] = x /\ \A j \in 1..(k - 1) : arr[j] /= x) - 1
    ELSE -1

\* arr[k] with a 0-based index: undefined past the end
At(arr, k) == IF k >= 0 /\ k < Len(arr) THEN arr[k + 1] ELSE undefined

NamePool(cat) ==
    CASE cat = "body" -> BODY_SIZE_NAMES
      [] cat = "title" -> TITLE_SIZE_NAMES
      [] cat = "display" -> DISPLAY_SIZE_NAMES
      [] cat = "code" -> CODE_SIZE_NAMES
      [] OTHER -> BODY_SIZE_NAMES

\* the names synthesized past the pool: `${suffix}xl` for suffix = 2, 3, ...
ExtraNames(extraCount) ==
    [k \in 1..extraCount |-> NumberToString(k + 1) \o <<"x", "l">>]

\* faulty variant of HeadingNames: the slice stops one short of the pool's end
HeadingNames_DropLast(namePool, count) ==
    Reverse(Slice(namePool, MathMax(0, Len(namePool) - count), Len(namePool) - 1))

\* title and display: the trailing `count` names of the pool, reversed
HeadingNames(namePool, count) ==
    Reverse(Slice(namePool, MathMax(0, Len(namePool) - count), Len(namePool)))

\* faulty variant of WindowNames: the window always starts at the pool's start
WindowNames_FromStart(namePool, count) == Slice(namePool, 0, count)

\* body and code with count <= pool length: a window around 'Base'
WindowNames(namePool, count) ==
    LET baseIdx == IndexOf(namePool, <<"B", "a", "s", "e">>)
        halfCount == count \div 2
        startIdx == MathMax(0, baseIdx - halfCount)
    IN  IF baseIdx >= 0
        THEN Slice(namePool, startIdx, startIdx + count)
        ELSE Slice(namePool, 0, count)

getSizeNamesForCategory(cat, count) ==
    LET namePool == NamePool(cat)
    IN  IF cat = "title" \/ cat = "display" THEN HeadingNames(namePool, count)
        ELSE IF count <= Len(namePool) THEN WindowNames(namePool, count)
        ELSE Slice(namePool \o ExtraNames(count - Len(namePool)), 0, count)

\* faulty variant of mapSizesToNames: maps over the names instead of the sizes
mapSizesToNames_OverNames(s, cat) ==
    LET names == getSizeNamesForCategory(cat, Len(s))
    IN  [k \in 1..Len(names) |-> [name |-> names[k], size |-> s[k]]]

mapSizesToNames(s, cat) ==
    LET names == getSizeNamesForCategory(cat, Len(s))
    IN  [k \in 1..Len(s) |-> [name |-> At(names, k - 1), size |-> s[k]]]

\* faulty variant of applyMobileScale: the cap is not applied
applyMobileScale_NoCap(s, multiplier, rounding, maxCap) ==
    [k \in 1..Len(s) |-> roundTo(Frac(s[k] * multiplier.n, multiplier.d), rounding)]

\* applyMobileScale; maxCap is <<>> when omitted and <<cap>> when provided
applyMobileScale(s, multiplier, rounding, maxCap) ==
    [k \in 1..Len(s) |->
        LET scaled == Frac(s[k] * multiplier.n, multiplier.d)
            mobileSize == IF maxCap /= <<>> /\ FracGt(scaled, maxCap[1])
                          THEN Frac(maxCap[1], 1)
                          ELSE scaled
        IN  roundTo(mobileSize, rounding)]

-----------------------------------------------------------------------------
(* Line-Height / Letter-Spacing Calculator *)

\* roundLineHeight(fontSize * ratio, rounding)
calculateLineHeight(fontSize, preset, rounding) ==
    LET ratio == LINE_HEIGHT_RATIOS[preset]
    IN  roundTo(Frac(fontSize * ratio.n, ratio.d), rounding)

calculateLetterSpacing(fontSize, cat) ==
    CASE cat = "display" -> IF fontSize > 60 THEN -2 ELSE -1
      [] cat = "title" -> IF fontSize > 36 THEN -1 ELSE 0
      [] OTHER -> 0

-----------------------------------------------------------------------------
(* Naming/Mapping Builder *)

\* capitalize: first letter upper case, the rest lower case
capitalize(str) ==
    IF Len(str) = 0 THEN <<>>
    ELSE <<CharToUpper(str[1])>> \o toLowerCase(Tail(str))

getCategoryDisplayName(cat) ==
    CASE cat = "display" -> <<"D", "i", "s", "p", "l", "a", "y">>
      [] cat = "title" -> <<"T", "i", "t", "l", "e">>
      [] cat = "body" -> <<"B", "o", "d", "y">>
      [] cat = "code" -> <<"C", "o", "d", "e">>

\* JavaScript truthiness of a string-or-null/undefined argument
Truthy(x) == x /= null /\ x /= undefined /\ x /= <<>>

\* the parts array of buildStyleName
StyleNameParts(breakpoint, cat, sizeName, weight) ==
    (IF Truthy(breakpoint) THEN <<capitalize(breakpoint)>> ELSE <<>>)
    \o <<getCategoryDisplayName(cat)>>
    \o <<sizeName>>
    \o (IF Truthy(weight) THEN <<weight>> ELSE <<>>)

buildStyleName(breakpoint, cat, sizeName, weight) ==
    Join(StyleNameParts(breakpoint, cat, sizeName, weight), <<"/">>)

\* styleName.toLowerCase().replace(/\//g, sep)
LowerReplaceSlash(styleName, sep) ==
    [k \in 1..Len(styleName) |->
        IF styleName[k] = "/" THEN sep ELSE CharToLower(styleName[k])]

toJsPath(styleName) ==
    <<"t", "y", "p", "o", "g", "r", "a", "p", "h", "y", ".">>
    \o LowerReplaceSlash(styleName, ".")

toCssVar(styleName) == <<"-", "-">> \o LowerReplaceSlash(styleName, "-")

getTailwindFontSize(fontSize) ==
    CASE fontSize <= 12 -> "text-xs"
      [] fontSize <= 14 -> "text-sm"
      [] fontSize <= 16 -> "text-base"
      [] fontSize <= 18 -> "text-lg"
      [] fontSize <= 20 -> "text-xl"
      [] fontSize <= 24 -> "text-2xl"
      [] fontSize <= 30 -> "text-3xl"
      [] fontSize <= 36 -> "text-4xl"
      [] fontSize <= 48 -> "text-5xl"
      [] fontSize <= 60 -> "text-6xl"
      [] fontSize <= 72 -> "text-7xl"
      [] fontSize <= 96 -> "text-8xl"
      [] OTHER -> "text-9xl"

\* lineHeight / fontSize <= hundredths / 100; the quotient 0 / 0 is NaN, which
\* compares false with everything
RatioLeq(lineHeight, fontSize, hundredths) ==
    fontSize > 0 /\ lineHeight * 100 <= hundredths * fontSize

getTailwindLineHeight(fontSize, lineHeight) ==
    CASE RatioLeq(lineHeight, fontSize, 100) -> "leading-none"
      [] RatioLeq(lineHeight, fontSize, 115) -> "leading-tight"
      [] RatioLeq(lineHeight, fontSize, 130) -> "leading-snug"
      [] RatioLeq(lineHeight, fontSize, 145) -> "leading-normal"
      [] RatioLeq(lineHeight, fontSize, 155) -> "leading-relaxed"
      [] OTHER -> "leading-loose"

\* the first matching test decides, as in the chain of `if ... return`
getTailwindFontWeight(weight) ==
    LET w == toLowerCase(weight)
    IN  CASE Includes(w, <<"t", "h", "i", "n">>) \/ Includes(w, <<"h", "a", "i", "r", "l", "i", "n", "e">>) -> "font-thin"
          [] Includes(w, <<"e", "x", "t", "r", "a", "l", "i", "g", "h", "t">>) \/ Includes(w, <<"u", "l", "t", "r", "a", " ", "l", "i", "g", "h", "t">>) -> "font-extralight"
          [] Includes(w, <<"l", "i", "g", "h", "t">>) -> "font-light"
          [] Includes(w, <<"r", "e", "g", "u", "l", "a", "r">>) \/ Includes(w, <<"n", "o", "r", "m", "a", "l">>) -> "font-normal"
          [] Includes(w, <<"m", "e", "d", "i", "u", "m">>) -> "font-medium"
          [] Includes(w, <<"s", "e", "m", "i", "b", "o", "l", "d">>) \/ Includes(w, <<"d", "e", "m", "i">>) -> "font-semibold"
          [] Includes(w, <<"e", "x", "t", "r", "a", "b", "o", "l", "d">>) \/ Includes(w, <<"u", "l", "t", "r", "a", " ", "b", "o", "l", "d">>) -> "font-extrabold"
          [] Includes(w, <<"b", "o", "l", "d">>) -> "font-bold"
          [] Includes(w, <<"b", "l", "a", "c", "k">>) \/ Includes(w, <<"h", "e", "a", "v", "y">>) -> "font-black"
      [] OTHER -> "font-normal"

\* generateMappings; the tailwind mapping is `${size} ${lineHeight} ${weight}`
generateMappings(style) ==
    [canonical |-> style.name,
     jsPath |-> toJsPath(style.name),
     cssVar |-> toCssVar(style.name),
     tailwind |-> <<getTailwindFontSize(style.fontSize), " ",
                    getTailwindLineHeight(style.fontSize, style.lineHeight), " ",
                    getTailwindFontWeight(style.fontStyle)>>]

getFontWeightNumber(weight) ==
    LET w == toLowerCase(weight)
    IN  CASE Includes(w, <<"t", "h", "i", "n">>) \/ Includes(w, <<"h", "a", "i", "r", "l", "i", "n", "e">>) -> 100
          [] Includes(w, <<"e", "x", "t", "r", "a", "l", "i", "g", "h", "t">>) \/ Includes(w, <<"u", "l", "t", "r", "a", " ", "l", "i", "g", "h", "t">>) -> 200
          [] Includes(w, <<"l", "i", "g", "h", "t">>) -> 300
          [] Includes(w, <<"r", "e", "g", "u", "l", "a", "r">>) \/ Includes(w, <<"n", "o", "r", "m", "a", "l">>) -> 400
          [] Includes(w, <<"m", "e", "d", "i", "u", "m">>) -> 500
          [] Includes(w, <<"s", "e", "m", "i", "b", "o", "l", "d">>) \/ Includes(w, <<"d", "e", "m", "i">>) -> 600
          [] Includes(w, <<"b", "o", "l", "d">>) /\ ~Includes(w, <<"e", "x", "t", "r", "a">>) /\ ~Includes(w, <<"u", "l", "t", "r", "a">>) -> 700
          [] Includes(w, <<"e", "x", "t", "r", "a", "b", "o", "l", "d">>) \/ Includes(w, <<"u", "l", "t", "r", "a", " ", "b", "o", "l", "d">>) -> 800
          [] Includes(w, <<"b", "l", "a", "c", "k">>) \/ Includes(w, <<"h", "e", "a", "v", "y">>) -> 900
      [] OTHER -> 400

\* usages[category]?.[sizeName] || 'General purpose text'
getUsageDescription(cat, sizeName) ==
    CASE cat = "display" /\ sizeName = <<"D", "1">> ->
            "Hero text, splash screens, main feature headlines"
      [] cat = "display" /\ sizeName = <<"D", "2">> ->
            "Secondary display text, large feature callouts"
      [] cat = "display" /\ sizeName = <<"D", "3">> ->
            "Tertiary display text, promotional content"
      [] cat = "title" /\ sizeName = <<"H", "1">> ->
            "Primary page headings"
      [] cat = "title" /\ sizeName = <<"H", "2">> ->
            "Section headings"
      [] cat = "title" /\ sizeName = <<"H", "3">> ->
            "Subsection headings"
      [] cat = "title" /\ sizeName = <<"H", "4">> ->
            "Card titles, minor headings"
      [] cat = "title" /\ sizeName = <<"H", "5">> ->
            "Small headings, list titles"
      [] cat = "title" /\ sizeName = <<"H", "6">> ->
            "Smallest headings, overlines"
      [] cat = "body" /\ sizeName = <<"2", "x", "l">> ->
            "Extra large body text, hero paragraphs"
      [] cat = "body" /\ sizeName = <<"X", "l">> ->
            "Large body text, lead paragraphs"
      [] cat = "body" /\ sizeName = <<"L", "g">> ->
            "Lead paragraphs, introductory text"
      [] cat = "body" /\ sizeName = <<"B", "a", "s", "e">> ->
            "Default body copy"
      [] cat = "body" /\ sizeName = <<"S", "m">> ->
            "Secondary text, descriptions"
      [] cat = "body" /\ sizeName = <<"X", "s">> ->
            "Fine print, helper text"
      [] cat = "code" /\ sizeName = <<"L", "g">> ->
            "Large code blocks, featured snippets"
      [] cat = "code" /\ sizeName = <<"B", "a", "s", "e">> ->
            "Default code and monospace text"
      [] cat = "code" /\ sizeName = <<"S", "m">> ->
            "Inline code, smaller snippets"
      [] cat = "code" /\ sizeName = <<"X", "s">> ->
            "Compact code, terminal output"
      [] OTHER -> "General purpose text"

-----------------------------------------------------------------------------
(* Style Definition Assembler *)

\* faulty variant of IncludeWeight: the weight is included for a single weight too
IncludeWeight_Always(categoryConfig) == Len(categoryConfig.weights) >= 1

\* only include the weight in the name if there are multiple weights
IncludeWeight(categoryConfig) == Len(categoryConfig.weights) > 1

\* createStyleDefinition; description, a rendering of the fields below that
\* nothing reads back, is left out of the record
createStyleDefinition(cfg, cat, categoryConfig, breakpoint, sizeName, fontSize, weight) ==
    LET name == buildStyleName(breakpoint, cat, sizeName,
                               IF IncludeWeight(categoryConfig) THEN weight ELSE undefined)
        styleDef ==
            [name |-> name,
             category |-> cat,
             breakpoint |-> breakpoint,
             sizeName |-> sizeName,
             fontFamily |-> categoryConfig.fontFamily,
             fontStyle |-> weight,
             fontSize |-> fontSize,
             lineHeight |-> calculateLineHeight(fontSize, categoryConfig.lineHeight,
                                                categoryConfig.scale.rounding),
             letterSpacing |-> calculateLetterSpacing(fontSize, cat),
             mappings |-> [canonical |-> name, jsPath |-> <<>>, cssVar |-> <<>>,
                           tailwind |-> <<>>]]
    IN  [styleDef EXCEPT !.mappings = generateMappings(styleDef)]

\* faulty variant of Breakpoints: both breakpoints, responsive or not
Breakpoints_AlwaysResponsive(cfg) == <<desktop, mobile>>

\* the breakpoints generated for every category
Breakpoints(cfg) == IF cfg.responsive.enabled THEN <<desktop, mobile>> ELSE <<null>>

\* faulty variant of FinalSizes: mobile sizes that reach the cap are dropped
FinalSizes_DropCapped(cfg, cat, breakpoint, s, named) ==
    IF breakpoint = mobile /\ cfg.responsive.mobile.enabled
    THEN mapSizesToNames(
             SelectSeq(applyMobileScale(s, cfg.responsive.mobile.scaleMultiplier,
                                        cfg.categories[cat].scale.rounding,
                                        <<cfg.responsive.mobileMaxSizes[cat]>>),
                       LAMBDA size : size < cfg.responsive.mobileMaxSizes[cat]),
             cat)
    ELSE named

\* the sizes of one breakpoint: mobile sizes are scaled, capped and re-named
FinalSizes(cfg, cat, breakpoint, s, named) ==
    IF breakpoint = mobile /\ cfg.responsive.mobile.enabled
    THEN mapSizesToNames(
             applyMobileScale(s, cfg.responsive.mobile.scaleMultiplier,
                              cfg.categories[cat].scale.rounding,
                              <<cfg.responsive.mobileMaxSizes[cat]>>),
             cat)
    ELSE named

\* a style for each size and weight, sizes outermost
BreakpointStyles(cfg, cat, breakpoint, s, named) ==
    LET categoryConfig == cfg.categories[cat]
        finalSizes == FinalSizes(cfg, cat, breakpoint, s, named)
        w == Len(categoryConfig.weights)
    IN  [k \in 1..(Len(finalSizes) * w) |->
            LET namedSize == finalSizes[((k - 1) \div w) + 1]
                weight == categoryConfig.weights[((k - 1) % w) + 1]
            IN  createStyleDefinition(cfg, cat, categoryConfig, breakpoint,
                                      namedSize.name, namedSize.size, weight)]

RECURSIVE Flatten(_)
\* the concatenation of a sequence of sequences
Flatten(seqs) == IF Len(seqs) = 0 THEN <<>> ELSE Head(seqs) \o Flatten(Tail(seqs))

\* faulty variant of CategoryStyles: a disabled category is not skipped
CategoryStyles_IgnoreEnabled(cfg, cat) ==
    LET s == generateScale(cfg.categories[cat].scale)
        named == mapSizesToNames(s, cat)
        breakpoints == Breakpoints(cfg)
    IN  Flatten([b \in 1..Len(breakpoints) |->
                    BreakpointStyles(cfg, cat, breakpoints[b], s, named)])

CategoryStyles(cfg, cat) ==
    IF ~cfg.categories[cat].enabled THEN <<>>
    ELSE LET s == generateScale(cfg.categories[cat].scale)
             named == mapSizesToNames(s, cat)
             breakpoints == Breakpoints(cfg)
         IN  Flatten([b \in 1..Len(breakpoints) |->
                        BreakpointStyles(cfg, cat, breakpoints[b], s, named)])

generateStyleDefinitions(cfg) ==
    Flatten([c \in 1..Len(Categories) |-> CategoryStyles(cfg, Categories[c])])

-----------------------------------------------------------------------------
(* Token/Export Formatter.  A returned string is a sequence of pieces: a piece
   is one character of a computed string or a literal of the source, whole.
   Two results of one formatter are the same string exactly when they are the
   same sequence. *)

Spaces(n) == [k \in 1..n |-> " "]

\* str.padStart(width, '0')
PadStart(str, width) ==
    IF Len(str) >= width THEN str ELSE [k \in 1..(width - Len(str)) |-> "0"] \o str

\* new Date(ms).toISOString() for an instant within the first second of the epoch
toISOString(ms) ==
    <<"1970-01-01T00:00:00.">> \o PadStart(NumberToString(ms), 3) \o <<"Z">>

RECURSIVE JoinWith(_, _)
\* the concatenation of texts with a separator between neighbours
JoinWith(texts, sep) ==
    IF Len(texts) = 0 THEN <<>>
    ELSE IF Len(texts) = 1 THEN texts[1]
    ELSE LET half == Len(texts) \div 2
         IN  JoinWith(SubSeq(texts, 1, half), sep) \o sep
             \o JoinWith(SubSeq(texts, half + 1, Len(texts)), sep)

\* lines.join('\n')
JoinLines(lines) == JoinWith(lines, <<"\n">>)

\* JavaScript values handed to JSON.stringify; an object keeps its members in
\* insertion order
JsString(text) == [type |-> "string", text |-> text]
JsNumber(v) == [type |-> "number", value |-> v]
JsNull == [type |-> "null"]
JsArray(items) == [type |-> "array", items |-> items]
JsObject(members) == [type |-> "object", members |-> members]
Member(key, val) == [key |-> key, value |-> val]

\* the escape of a string character in JSON
Escape(text) == [k \in 1..Len(text) |-> IF text[k] = "\"" THEN "\\\"" ELSE text[k]]

\* a member's key: quoted, or bare after .replace(/"([^"]+)":/g, '$1:')
KeyText(key, quoteKeys) ==
    IF quoteKeys \/ key = <<>>
    THEN <<"\"">> \o Escape(key) \o <<"\"", ": ">>
    ELSE key \o <<": ">>

RECURSIVE Stringify(_, _, _)
\* JSON.stringify(node, null, 2), at the given indentation
Stringify(node, indent, quoteKeys) ==
    CASE node.type = "string" -> <<"\"">> \o Escape(node.text) \o <<"\"">>
      [] node.type = "number" -> NumberText(node.value)
      [] node.type = "null" -> <<"null">>
      [] node.type = "array" ->
            IF Len(node.items) = 0 THEN <<"[]">>
            ELSE <<"[", "\n">>
                 \o JoinWith([k \in 1..Len(node.items) |->
                                 Spaces(indent + 2)
                                 \o Stringify(node.items[k], indent + 2, quoteKeys)],
                             <<",", "\n">>)
                 \o <<"\n">> \o Spaces(indent) \o <<"]">>
      [] node.type = "object" ->
            IF Len(node.members) = 0 THEN <<"{}">>
            ELSE <<"{", "\n">>
                 \o JoinWith([k \in 1..Len(node.members) |->
                                 Spaces(indent + 2)
                                 \o KeyText(node.members[k].key, quoteKeys)
                                 \o Stringify(node.members[k].value, indent + 2,
                                              quoteKeys)],
                             <<",", "\n">>)
                 \o <<"\n">> \o Spaces(indent) \o <<"}">>

\* obj[key] is set
HasMember(obj, key) == \E k \in 1..Len(obj.members) : obj.members[k].key = key

\* obj[key]
GetMember(obj, key) ==
    obj.members[CHOOSE k \in 1..Len(obj.members) : obj.members[k].key = key].value

\* obj[key] = val: an existing key keeps its place, a new one goes last
SetMember(obj, key, val) ==
    IF HasMember(obj, key)
    THEN JsObject([k \in 1..Len(obj.members) |->
                      IF obj.members[k].key = key THEN Member(key, val)
                      ELSE obj.members[k]])
    ELSE JsObject(Append(obj.members, Member(key, val)))

RECURSIVE SetPath(_, _, _)
\* the descent of buildTokenStructure along parts, creating `{}` where nothing
\* is set, and the assignment of the token at the last part; whatever is set on
\* the way (tokens included) is an object, hence truthy, and is descended into
SetPath(current, parts, token) ==
    IF Len(parts) = 1 THEN SetMember(current, parts[1], token)
    ELSE LET child == IF HasMember(current, parts[1])
                      THEN GetMember(current, parts[1])
                      ELSE JsObject(<<>>)
         IN  SetMember(current, parts[1], SetPath(child, Tail(parts), token))

createDesignToken(style) ==
    JsObject(<<
        Member(<<"v", "a", "l", "u", "e">>, JsObject(<<
            Member(<<"f", "o", "n", "t", "F", "a", "m", "i", "l", "y">>, JsString(<<style.fontFamily>>)),
            Member(<<"f", "o", "n", "t", "W", "e", "i", "g", "h", "t">>, JsNumber(Frac(getFontWeightNumber(style.fontStyle), 1))),
            Member(<<"f", "o", "n", "t", "S", "i", "z", "e">>, JsNumber(Frac(style.fontSize, 1))),
            Member(<<"l", "i", "n", "e", "H", "e", "i", "g", "h", "t">>, JsNumber(Frac(style.lineHeight, 1))),
            Member(<<"l", "e", "t", "t", "e", "r", "S", "p", "a", "c", "i", "n", "g">>, JsNumber(Frac(style.letterSpacing, 1)))>>)),
        Member(<<"t", "y", "p", "e">>, JsString(<<"typography">>)),
        Member(<<"d", "e", "s", "c", "r", "i", "p", "t", "i", "o", "n">>,
               JsString(<<getUsageDescription(style.category, style.sizeName)>>)),
        Member(<<"m", "a", "p", "p", "i", "n", "g", "s">>, JsObject(<<
            Member(<<"c", "a", "n", "o", "n", "i", "c", "a", "l">>, JsString(style.mappings.canonical)),
            Member(<<"j", "s", "P", "a", "t", "h">>, JsString(style.mappings.jsPath)),
            Member(<<"c", "s", "s", "V", "a", "r">>, JsString(style.mappings.cssVar)),
            Member(<<"t", "a", "i", "l", "w", "i", "n", "d">>, JsString(style.mappings.tailwind))>>))>>)

RECURSIVE TokenLoop(_, _)
\* for (const style of styles) { ... } of buildTokenStructure (tokens is always
\* an object: reading its type has the tree evaluated at every turn of the loop)
TokenLoop(tokens, defs) ==
    IF Len(defs) = 0 \/ tokens.type /= "object" THEN tokens
    ELSE TokenLoop(SetPath(tokens, Split(Head(defs).mappings.jsPath, "."),
                           createDesignToken(Head(defs))),
                   Tail(defs))

buildTokenStructure(defs) ==
    TokenLoop(JsObject(<<Member(<<"t", "y", "p", "o", "g", "r", "a", "p", "h", "y">>, JsObject(<<>>))>>), defs)

\* getCategoryMeta: one member per enabled category, in the fixed order
getCategoryMeta(cfg) ==
    JsObject(Flatten([c \in 1..Len(Categories) |->
        LET cat == Categories[c]
            catConfig == cfg.categories[cat]
        IN  IF ~catConfig.enabled THEN <<>>
            ELSE <<Member(<<cat>>, JsObject(<<
                     Member(<<"fontFamily">>, JsString(<<catConfig.fontFamily>>)),
                     Member(<<"scale">>, JsObject(<<
                         Member(<<"method">>, JsString(<<catConfig.scale.method>>)),
                         Member(<<"min">>, JsNumber(Frac(catConfig.scale.min, 1))),
                         Member(<<"max">>, JsNumber(Frac(catConfig.scale.max, 1))),
                         Member(<<"ratio">>, JsNumber(catConfig.scale.ratio)),
                         Member(<<"rounding">>,
                                JsNumber(Frac(catConfig.scale.rounding, 1)))>>)),
                     Member(<<"lineHeight">>, JsString(<<catConfig.lineHeight>>)),
                     Member(<<"weights">>,
                            JsArray([w \in 1..Len(catConfig.weights) |->
                                        JsString(catConfig.weights[w])]))>>))>>]))

\* generateJsonTokens; t is the instant `new Date()` reads
generateJsonTokens(defs, cfg, t) ==
    LET output ==
            JsObject(
                <<Member(<<"$name">>, JsString(<<"Typography System">>)),
                  Member(<<"$description">>,
                         JsString(<<"Generated typography tokens with per-category scales">>))>>
                \o buildTokenStructure(defs).members
                \o <<Member(<<"$meta">>, JsObject(<<
                       Member(<<"units">>, JsString(<<"px">>)),
                       Member(<<"remBase">>, JsNumber(Frac(16, 1))),
                       Member(<<"categories">>, getCategoryMeta(cfg)),
                       Member(<<"responsive">>,
                              IF cfg.responsive.enabled
                              THEN JsObject(<<Member(<<"mobile">>, JsObject(<<
                                       Member(<<"scaleMultiplier">>,
                                              JsNumber(cfg.responsive.mobile.scaleMultiplier))>>))>>)
                              ELSE JsNull),
                       Member(<<"generatedAt">>, JsString(toISOString(t)))>>))>>)
    IN  Stringify(output, 0, TRUE)

\* the lines generateYamlTokens pushes for one style
YamlStyleLines(style) ==
    <<<<"  - name: \"">> \o style.name \o <<"\"">>,
      <<"    category: ", style.category>>,
      <<"    path: ">> \o style.mappings.jsPath,
      <<"    fontFamily: \"", style.fontFamily, "\"">>,
      <<"    fontWeight: ">> \o IntegerText(getFontWeightNumber(style.fontStyle)),
      <<"    fontSizePx: ">> \o IntegerText(style.fontSize),
      <<"    lineHeightPx: ">> \o IntegerText(style.lineHeight),
      <<"    letterSpacingPct: ">> \o IntegerText(style.letterSpacing)>>
    \o (IF Truthy(style.breakpoint)
        THEN <<<<"    breakpoint: ">> \o style.breakpoint>>
        ELSE <<>>)
    \o <<<<"    usage: \"", getUsageDescription(style.category, style.sizeName), "\"">>,
         <<"    mappings:">>,
         <<"      tailwind: \"">> \o style.mappings.tailwind \o <<"\"">>,
         <<"      cssVar: \"">> \o style.mappings.cssVar \o <<"\"">>,
         <<>>>>

generateYamlTokens(defs, cfg, t) ==
    JoinLines(
        <<<<"# Typography System">>,
          <<"# Generated: ">> \o toISOString(t),
          <<>>,
          <<"# Category Scales:">>>>
        \o Flatten([c \in 1..Len(Categories) |->
              LET cat == Categories[c]
                  catConfig == cfg.categories[cat]
              IN  IF ~catConfig.enabled THEN <<>>
                  ELSE <<<<"#   ", cat, ": ">> \o IntegerText(catConfig.scale.min)
                         \o <<"-">> \o IntegerText(catConfig.scale.max)
                         \o <<"px (", catConfig.scale.method, ")">>>>])
        \o <<<<>>, <<"styles:">>>>
        \o Flatten([k \in 1..Len(defs) |-> YamlStyleLines(defs[k])]))

\* the custom properties generateCssVars pushes for one style
CssVarLines(style) ==
    LET prefix == style.mappings.cssVar
    IN  <<<<"  /* ">> \o style.name \o <<" */">>,
          <<"  ">> \o prefix \o <<"-font-size: ">> \o IntegerText(style.fontSize)
              \o <<"px;">>,
          <<"  ">> \o prefix \o <<"-line-height: ">> \o IntegerText(style.lineHeight)
              \o <<"px;">>,
          <<"  ">> \o prefix \o <<"-font-weight: ">>
              \o IntegerText(getFontWeightNumber(style.fontStyle)) \o <<";">>,
          <<"  ">> \o prefix \o <<"-letter-spacing: ">>
              \o IntegerText(style.letterSpacing) \o <<"%;">>,
          <<>>>>

\* the utility class generateCssVars pushes for one style
CssClassLines(style) ==
    LET className == LowerReplaceSlash(style.name, "-")
        prefix == style.mappings.cssVar
    IN  <<<<".">> \o className \o <<" {">>,
          <<"  font-size: var(">> \o prefix \o <<"-font-size);">>,
          <<"  line-height: var(">> \o prefix \o <<"-line-height);">>,
          <<"  font-weight: var(">> \o prefix \o <<"-font-weight);">>,
          <<"  letter-spacing: var(">> \o prefix \o <<"-letter-spacing);">>,
          <<"}">>,
          <<>>>>

generateCssVars(defs, cfg, t) ==
    JoinLines(
        <<<<"/* Typography System - CSS Custom Properties */">>,
          <<"/* Generated: ">> \o toISOString(t) \o <<" */">>,
          <<>>,
          <<":root {">>,
          <<"  /* Font Families */">>>>
        \o Flatten([c \in 1..Len(Categories) |->
              LET cat == Categories[c]
                  catConfig == cfg.categories[cat]
                  fallback == IF cat = "code"
                              THEN "ui-monospace, SFMono-Regular, monospace"
                              ELSE "system-ui, -apple-system, sans-serif"
              IN  IF ~catConfig.enabled THEN <<>>
                  ELSE <<<<"  --font-", cat, ": \"", catConfig.fontFamily, "\", ",
                           fallback, ";">>>>])
        \o <<<<>>, <<"  /* Typography Styles */">>>>
        \o Flatten([k \in 1..Len(defs) |-> CssVarLines(defs[k])])
        \o <<<<"}">>, <<>>, <<"/* Utility Classes */">>>>
        \o Flatten([k \in 1..Len(defs) |-> CssClassLines(defs[k])]))

\* what a call yields when it throws: style.sizeName.toLowerCase() on an
\* undefined sizeName
TypeError == <<"TypeError">>

\* the key of one style in fontSizes, like "title-h1-desktop" or "body-base"
TailwindKey(style) ==
    Join(<<<<style.category>>, toLowerCase(style.sizeName)>>
         \o (IF Truthy(style.breakpoint) THEN <<style.breakpoint>> ELSE <<>>)
         \o (IF style.fontStyle /= <<"R", "e", "g", "u", "l", "a", "r">>
             THEN <<toLowerCase(style.fontStyle)>>
             ELSE <<>>),
         <<"-">>)

RECURSIVE FontSizesLoop(_, _)
\* for (const style of styles) { fontSizes[key] = [...] } (fontSizes is always
\* an object: reading its type has it evaluated at every turn of the loop)
FontSizesLoop(fontSizes, defs) ==
    IF Len(defs) = 0 \/ fontSizes.type /= "object" THEN fontSizes
    ELSE LET style == Head(defs)
             entry == JsArray(<<
                 JsString(IntegerText(style.fontSize) \o <<"px">>),
                 JsObject(<<
                     Member(<<"lineHeight">>,
                            JsString(IntegerText(style.lineHeight) \o <<"px">>)),
                     Member(<<"fontWeight">>,
                            JsString(IntegerText(getFontWeightNumber(style.fontStyle))))>>)>>)
         IN  FontSizesLoop(SetMember(fontSizes, TailwindKey(style), entry), Tail(defs))

\* the fontFamily object of generateTailwindConfig
TailwindFontFamily(cfg) ==
    JsObject(Flatten([c \in 1..Len(Categories) |->
        LET cat == Categories[c]
            catConfig == cfg.categories[cat]
            fallback == IF cat = "code"
                        THEN <<JsString(<<"ui-monospace">>), JsString(<<"monospace">>)>>
                        ELSE <<JsString(<<"system-ui">>), JsString(<<"-apple-system">>),
                               JsString(<<"sans-serif">>)>>
        IN  IF ~catConfig.enabled THEN <<>>
            ELSE <<Member(<<cat>>,
                          JsArray(<<JsString(<<"\"", catConfig.fontFamily, "\"">>)>>
                                  \o fallback))>>]))

generateTailwindConfig(defs, cfg, t) ==
    IF \E k \in 1..Len(defs) : defs[k].sizeName = undefined THEN TypeError
    ELSE LET output ==
                 JsObject(<<Member(<<"theme">>, JsObject(<<
                     Member(<<"extend">>, JsObject(<<
                         Member(<<"fontFamily">>, TailwindFontFamily(cfg)),
                         Member(<<"fontSize">>,
                                FontSizesLoop(JsObject(<<>>), defs))>>))>>))>>)
         IN  JoinLines(<<<<"// Tailwind CSS Configuration Snippet">>,
                         <<"// Generated: ">> \o toISOString(t),
                         <<"// Add this to your tailwind.config.js">>,
                         <<>>,
                         <<"module.exports = ">> \o Stringify(output, 0, FALSE)>>)

-----------------------------------------------------------------------------
(* Inputs *)

\* scale ranges; every ratio of ModelRatios stays within 32-bit integers on them
ScaleMins == {11, 12, 14}
ScaleMaxs == {15, 20, 24}

\* the ScaleConfigs of the data model: min < max, ratio > 1, steps >= 2
ScaleConfigs ==
    {c \in [method : ScaleMethods, min : ScaleMins, max : ScaleMaxs,
            ratio : ModelRatios, steps : 2..MaxSteps, rounding : Roundings] :
        c.min < c.max}

\* sizes handed to the namer and to applyMobileScale: non-decreasing sequences,
\* as generateScale (strictly ascending) and applyMobileScale (capped) return
SizeValues == {12, 16, 20, 24}
IsNonDecreasing(s) == \A k \in 1..(Len(s) - 1) : s[k] <= s[k + 1]
IsAscending(s) == \A k \in 1..(Len(s) - 1) : s[k] < s[k + 1]
SizeSequences ==
    {s \in UNION {[1..n -> SizeValues] : n \in 0..MaxLen} : IsNonDecreasing(s)}

\* scaleMultiplier values the range input (70..100 percent) can give, and the default
Multipliers == {Frac(75, 100), Frac(875, 1000), Frac(100, 100)}

\* maxCap arguments: omitted, a multiple of every rounding, and one that is not
MaxCaps == {<<>>, <<20>>, <<18>>}

MobileArgs == [multiplier : Multipliers, rounding : Roundings, maxCap : MaxCaps]

\* a variable of a call that is not running holds nothing
idle == "idle"
IdleScale ==
    /\ scaleCfg = idle
    /\ value = idle
    /\ i = idle
IdleNamer ==
    /\ category = idle
    /\ mobileArgs = idle
    /\ mobileSizes = idle
    /\ namedSizes = idle
IdleStyles ==
    /\ config = idle
    /\ styles = idle
IdleExport ==
    /\ now = idle
    /\ exportData = idle
IdleHost ==
    /\ fonts = idle
    /\ localTextStyles = idle
    /\ nextId = idle
    /\ pageChildren = idle
    /\ posted = idle
    /\ textStyles = idle
    /\ runs = idle

-----------------------------------------------------------------------------
(* generateScale, statement by statement *)

ScaleInit ==
    /\ pc = "generateScale"
    /\ scaleCfg \in ScaleConfigs
    /\ value = idle
    /\ i = idle
    /\ sizes = idle
    /\ IdleNamer
    /\ IdleStyles
    /\ IdleExport
    /\ IdleHost

\* the switch of generateScale and the declarations of the chosen generator
GenerateScale ==
    /\ pc = "generateScale"
    /\ pc' = (CASE scaleCfg.method = "linear" -> "linear"
                [] scaleCfg.method = "tailwind" -> "tailwind"
                [] OTHER -> "modular")
    /\ value' = Frac(scaleCfg.min, 1)
    /\ i' = 0
    /\ sizes' = <<>>
    /\ UNCHANGED <<scaleCfg, category, mobileArgs, mobileSizes, namedSizes, config, styles,
                   now, exportData, hostVars>>

\* while (value <= max) { ... }
ModularIterate ==
    /\ pc = "modular"
    /\ FracLeq(value, scaleCfg.max)
    /\ LET st == ModularBody(scaleCfg, [sizes |-> sizes, value |-> value])
       IN  sizes' = st.sizes /\ value' = st.value
    /\ UNCHANGED <<pc, scaleCfg, i, category, mobileArgs, mobileSizes, namedSizes,
                   config, styles,
                   now, exportData, hostVars>>

\* loop exit, the max is appended, return
ModularReturn ==
    /\ pc = "modular"
    /\ ~FracLeq(value, scaleCfg.max)
    /\ sizes' = ModularTail(scaleCfg, sizes)
    /\ pc' = "done"
    /\ UNCHANGED <<scaleCfg, value, i, category, mobileArgs, mobileSizes, namedSizes,
                   config, styles,
                   now, exportData, hostVars>>

\* for (let i = 0; i < steps; i++) { ... }
LinearIterate ==
    /\ pc = "linear"
    /\ i < scaleCfg.steps
    /\ sizes' = LinearBody(scaleCfg, i, sizes)
    /\ i' = i + 1
    /\ UNCHANGED <<pc, scaleCfg, value, category, mobileArgs, mobileSizes, namedSizes,
                   config, styles,
                   now, exportData, hostVars>>

LinearReturn ==
    /\ pc = "linear"
    /\ ~(i < scaleCfg.steps)
    /\ pc' = "done"
    /\ UNCHANGED <<scaleCfg, value, i, sizes, category, mobileArgs, mobileSizes,
                   namedSizes, config, styles,
                   now, exportData, hostVars>>

TailwindReturn ==
    /\ pc = "tailwind"
    /\ sizes' = generateTailwindScale(scaleCfg)
    /\ pc' = "done"
    /\ UNCHANGED <<scaleCfg, value, i, category, mobileArgs, mobileSizes, namedSizes,
                   config, styles,
                   now, exportData, hostVars>>

ScaleNext ==
    \/ GenerateScale
    \/ ModularIterate
    \/ ModularReturn
    \/ LinearIterate
    \/ LinearReturn
    \/ TailwindReturn

SpecScale == ScaleInit /\ [][ScaleNext]_vars

\* generateScale on ScaleConfigs of the data model (min < max, ratio > 1), a
\* zero min included: generateScale itself checks none of its arguments
TerminationMins == {0, 12, 14}
TerminationMaxs == {15, 20}
TerminationConfigs ==
    [method : ScaleMethods, min : TerminationMins, max : TerminationMaxs,
     ratio : {Frac(3, 2)}, steps : 2..MaxSteps, rounding : Roundings]

\* the locals hold, from the start, what the generators declare them with
TerminationInit ==
    /\ pc = "generateScale"
    /\ scaleCfg \in TerminationConfigs
    /\ value = Frac(scaleCfg.min, 1)
    /\ i = 0
    /\ sizes = <<>>
    /\ IdleNamer
    /\ IdleStyles
    /\ IdleExport
    /\ IdleHost

\* a call, once entered, runs: the engine executes the next statement for as
\* long as there is one
SpecTermination == TerminationInit /\ [][ScaleNext]_vars /\ WF_vars(ScaleNext)

-----------------------------------------------------------------------------
(* The namer and the mobile derivation, in the order generateStyleDefinitions
   calls them for one category *)

NamerInit ==
    /\ pc = "mapSizesToNames"
    /\ sizes \in SizeSequences
    /\ category \in CategorySet
    /\ mobileArgs \in MobileArgs
    /\ mobileSizes = idle
    /\ namedSizes = idle
    /\ IdleScale
    /\ IdleStyles
    /\ IdleExport
    /\ IdleHost

\* const namedSizes = mapSizesToNames(sizes, category)
MapSizesToNames ==
    /\ pc = "mapSizesToNames"
    /\ namedSizes' = mapSizesToNames(sizes, category)
    /\ pc' = "applyMobileScale"
    /\ UNCHANGED <<scaleCfg, value, i, sizes, category, mobileArgs, mobileSizes,
                   config, styles,
                   now, exportData, hostVars>>

\* const mobileSizes = applyMobileScale(sizes, multiplier, rounding, maxCap)
ApplyMobileScale ==
    /\ pc = "applyMobileScale"
    /\ mobileSizes' = applyMobileScale(sizes, mobileArgs.multiplier, mobileArgs.rounding,
                                       mobileArgs.maxCap)
    /\ pc' = "mapMobileSizes"
    /\ UNCHANGED <<scaleCfg, value, i, sizes, category, mobileArgs, namedSizes,
                   config, styles,
                   now, exportData, hostVars>>

\* finalSizes = mapSizesToNames(mobileSizes, category)
MapMobileSizes ==
    /\ pc = "mapMobileSizes"
    /\ namedSizes' = mapSizesToNames(mobileSizes, category)
    /\ pc' = "mobileNamed"
    /\ UNCHANGED <<scaleCfg, value, i, sizes, category, mobileArgs, mobileSizes,
                   config, styles,
                   now, exportData, hostVars>>

NamerNext ==
    \/ MapSizesToNames
    \/ ApplyMobileScale
    \/ MapMobileSizes

SpecNamer == NamerInit /\ [][NamerNext]_vars

-----------------------------------------------------------------------------
(* generateStyleDefinitions *)

\* the scales tried on the category under study; linear scales take MaxSteps steps
StudyMaxs == {20, 36}

\* the default min with a moderate ratio, and a small min (the Min input passes
\* any typed number but 0 on) with a ratio that reaches the max in few steps
StudyRanges == {[min |-> 12, ratio |-> Frac(5, 4)], [min |-> 1, ratio |-> Frac(3, 2)]}

StudyScales ==
    {[method |-> m, min |-> g.min, max |-> mx, ratio |-> g.ratio, steps |-> MaxSteps,
      rounding |-> r] :
        m \in ScaleMethods, g \in StudyRanges, mx \in StudyMaxs, r \in Roundings}

\* one weight, or two
StudyWeights ==
    {<<<<"R", "e", "g", "u", "l", "a", "r">>>>,
     <<<<"R", "e", "g", "u", "l", "a", "r">>, <<"B", "o", "l", "d">>>>}

ResponsiveConfigs ==
    {[enabled |-> e, mobile |-> [enabled |-> m, scaleMultiplier |-> x],
      mobileMaxSizes |-> DEFAULT_MOBILE_MAX_SIZES] :
        e \in BOOLEAN, m \in BOOLEAN, x \in Multipliers}

\* DEFAULT_CONFIG with one category reconfigured, the others all on or all off
StudyConfig(cat, scale, weights, othersEnabled, responsive) ==
    [categories |->
        [c \in CategorySet |->
            IF c = cat
            THEN [DEFAULT_CONFIG.categories[c] EXCEPT
                     !.enabled = TRUE, !.scale = scale, !.weights = weights]
            ELSE [DEFAULT_CONFIG.categories[c] EXCEPT !.enabled = othersEnabled]],
     responsive |-> responsive]

PluginConfigs ==
    {StudyConfig(cat, scale, weights, others, responsive) :
        cat \in CategorySet, scale \in StudyScales, weights \in StudyWeights,
        others \in BOOLEAN, responsive \in ResponsiveConfigs}

StylesInit ==
    /\ pc = "generate"
    /\ config \in PluginConfigs
    /\ styles = idle
    /\ sizes = idle
    /\ IdleScale
    /\ IdleNamer
    /\ IdleExport
    /\ IdleHost

\* const styleDefs = generateStyleDefinitions(config)
GenerateStyleDefinitions ==
    /\ pc = "generate"
    /\ styles' = generateStyleDefinitions(config)
    /\ pc' = "generated"
    /\ UNCHANGED <<scaleCfg, value, i, sizes, category, mobileArgs, mobileSizes,
                   namedSizes, config,
                   now, exportData, hostVars>>

StylesNext == GenerateStyleDefinitions

SpecStyles == StylesInit /\ [][StylesNext]_vars

-----------------------------------------------------------------------------
(* The export formatters, called at the instants of generate runs: generate()
   calls generateExports(styleDefs, config), which calls each enabled formatter
   once; the clock moves between calls *)

\* short scales, so that the exported texts stay small; the second exceeds the
\* display pool, the third the body pool too
ExportScales ==
    {[method |-> "tailwind", min |-> 12, max |-> mx, ratio |-> Frac(5, 4), steps |-> 2,
      rounding |-> 1] : mx \in {14, 18, 30}}

ExportConfigs ==
    {StudyConfig(cat, scale, weights, FALSE,
                 [DEFAULT_CONFIG.responsive EXCEPT !.enabled = e]) :
        cat \in {"display", "body"}, scale \in ExportScales, weights \in StudyWeights,
        e \in BOOLEAN}

ExportInit ==
    /\ pc = "generateExports"
    /\ config \in ExportConfigs
    /\ styles = generateStyleDefinitions(config)
    /\ now = 0
    /\ exportData = <<>>
    /\ sizes = idle
    /\ IdleScale
    /\ IdleNamer
    /\ IdleHost

\* time passes
Tick ==
    /\ now < MaxTime
    /\ now' = now + 1
    /\ UNCHANGED <<pc, scaleCfg, value, i, sizes, category, mobileArgs, mobileSizes,
                   namedSizes, config, styles, exportData, hostVars>>

\* the results so far and the result of one more formatter call
Returned(format, text) == Append(exportData, [format |-> format, text |-> text])

\* data.json = generateJsonTokens(styles, config)
GenerateJsonTokens ==
    /\ Len(exportData) < MaxCalls
    /\ exportData' = Returned("json", generateJsonTokens(styles, config, now))
    /\ UNCHANGED <<pc, scaleCfg, value, i, sizes, category, mobileArgs, mobileSizes,
                   namedSizes, config, styles, now, hostVars>>

\* data.yaml = generateYamlTokens(styles, config)
GenerateYamlTokens ==
    /\ Len(exportData) < MaxCalls
    /\ exportData' = Returned("yaml", generateYamlTokens(styles, config, now))
    /\ UNCHANGED <<pc, scaleCfg, value, i, sizes, category, mobileArgs, mobileSizes,
                   namedSizes, config, styles, now, hostVars>>

\* data.css = generateCssVars(styles, config)
GenerateCssVars ==
    /\ Len(exportData) < MaxCalls
    /\ exportData' = Returned("css", generateCssVars(styles, config, now))
    /\ UNCHANGED <<pc, scaleCfg, value, i, sizes, category, mobileArgs, mobileSizes,
                   namedSizes, config, styles, now, hostVars>>

\* data.tailwind = generateTailwindConfig(styles, config)
GenerateTailwindConfig ==
    /\ Len(exportData) < MaxCalls
    /\ exportData' = Returned("tailwind", generateTailwindConfig(styles, config, now))
    /\ UNCHANGED <<pc, scaleCfg, value, i, sizes, category, mobileArgs, mobileSizes,
                   namedSizes, config, styles, now, hostVars>>

ExportNext ==
    \/ Tick
    \/ GenerateJsonTokens
    \/ GenerateYamlTokens
    \/ GenerateCssVars
    \/ GenerateTailwindConfig

SpecExport == ExportInit /\ [][ExportNext]_vars

-----------------------------------------------------------------------------
(* Host layer: the Figma document.  figma.loadFontAsync(fontName) resolves
   for the fonts of the set fonts and rejects for every other font; a call
   that awaits is one step of the model *)

Regular == <<"R", "e", "g", "u", "l", "a", "r">>
Bold == <<"B", "o", "l", "d">>

\* a FontName
FontName(family, style) == [family |-> family, style |-> style]

\* the outcome of a call: a returned value, or a thrown Error
Returns(result) == [threw |-> FALSE, value |-> result]
Throws(message) == [threw |-> TRUE, error |-> message]

\* the first element of candidates that figma.loadFontAsync loads, as a
\* one-element sequence, or <<>> when every load rejects
FirstLoadable(candidates) ==
    LET hits == {k \in 1..Len(candidates) : candidates[k] \in fonts}
    IN  IF hits = {} THEN <<>>
        ELSE <<candidates[CHOOSE k \in hits : \A h \in hits : k <= h]>>

loadFontWithFallback(family, style) ==
    LET fallbacks == [k \in 1..4 |->
                         FontName(family, << <<"R", "e", "g", "u", "l", "a", "r">>,
                                             <<"N", "o", "r", "m", "a", "l">>,
                                             <<"B", "o", "o", "k">>,
                                             <<"R", "o", "m", "a", "n">> >>[k])]
        systemFonts == [k \in 1..3 |->
                           FontName(<<"Roboto", "Arial", "Helvetica">>[k], Regular)]
        loaded == FirstLoadable(<<FontName(family, style)>> \o fallbacks \o systemFonts)
    IN  IF loaded /= <<>> THEN Returns(loaded[1])
        ELSE Throws(<<"Could not load font: ", family, " ">> \o style)

\* figma.createTextStyle(): a text style with the properties Figma gives a new
\* style (Inter Regular, 12, automatic line height), before any is set
createTextStyle(id) ==
    [id |-> id, name |-> <<>>, fontName |-> FontName("Inter", Regular), fontSize |-> 12,
     lineHeight |-> [unit |-> "AUTO"], letterSpacing |-> [value |-> 0, unit |-> "PERCENT"]]

\* existingStyles.find(s => s.name === name): the position of the first style
\* of that name, 0 when there is none
FindByName(nodes, name) ==
    LET hits == {k \in 1..Len(nodes) : nodes[k].name = name}
    IN  IF hits = {} THEN 0 ELSE CHOOSE k \in hits : \A h \in hits : k <= h

\* faulty variant of createOrUpdateTextStyle: a style is created every time
createOrUpdateTextStyle_AlwaysCreate(local, id, def) ==
    LET style == [createTextStyle(id) EXCEPT !.name = def.name]
        loadedFont == loadFontWithFallback(def.fontFamily, def.fontStyle)
    IN  IF loadedFont.threw
        THEN [local |-> Append(local, style), nextId |-> id + 1, outcome |-> loadedFont]
        ELSE [local |-> Append(local,
                          [style EXCEPT !.fontName = loadedFont.value,
                                        !.fontSize = def.fontSize,
                                        !.lineHeight = [value |-> def.lineHeight, unit |-> "PIXELS"],
                                        !.letterSpacing = [value |-> def.letterSpacing,
                                                           unit |-> "PERCENT"]]),
              nextId |-> id + 1,
              outcome |-> Returns(id)]

\* createOrUpdateTextStyle(def) on the local text styles local, id being the id
\* of the next style created: the local text styles and the next id after the
\* call, and its outcome (the id of the style returned, or the Error thrown).
\* The description, which nothing reads back, is left out of the style
createOrUpdateTextStyle(local, id, def) ==
    LET existing == FindByName(local, def.name)
        afterCreate == IF existing = 0
                       THEN Append(local, [createTextStyle(id) EXCEPT !.name = def.name])
                       ELSE local
        k == IF existing = 0 THEN Len(afterCreate) ELSE existing
        idAfter == IF existing = 0 THEN id + 1 ELSE id
        loadedFont == loadFontWithFallback(def.fontFamily, def.fontStyle)
    IN  IF loadedFont.threw
        THEN [local |-> afterCreate, nextId |-> idAfter, outcome |-> loadedFont]
        ELSE [local |-> [afterCreate EXCEPT ![k] =
                            [@ EXCEPT !.fontName = loadedFont.value,
                                      !.fontSize = def.fontSize,
                                      !.lineHeight = [value |-> def.lineHeight, unit |-> "PIXELS"],
                                      !.letterSpacing = [value |-> def.letterSpacing,
                                                         unit |-> "PERCENT"]]],
              nextId |-> idAfter,
              outcome |-> Returns(afterCreate[k].id)]

\* categoryPrefixes.some(prefix => name.startsWith(prefix))
MatchesPrefix(name) ==
    \E prefix \in {<<"D", "i", "s", "p", "l", "a", "y", "/">>, <<"T", "i", "t", "l", "e", "/">>,
                   <<"B", "o", "d", "y", "/">>, <<"C", "o", "d", "e", "/">>,
                   <<"M", "o", "b", "i", "l", "e", "/">>,
                   <<"D", "e", "s", "k", "t", "o", "p", "/">>} :
        startsWith(name, prefix)

\* faulty variant of removeOrphanedStyles: the prefix is not looked at
removeOrphanedStyles_AnyPrefix(local, validNames) ==
    SelectSeq(local, LAMBDA style : style.name \in validNames)

\* removeOrphanedStyles(validNames) on the local text styles local
removeOrphanedStyles(local, validNames) ==
    SelectSeq(local, LAMBDA style : ~(MatchesPrefix(style.name) /\ style.name \notin validNames))

-----------------------------------------------------------------------------
(* Host layer: the specimen frames on the page named 'Typography' *)

DESKTOP_FRAME_NAME == "Desktop Specimen"
MOBILE_FRAME_NAME == "Mobile Specimen"
EXPORTS_FRAME_NAME == "Code Exports"

\* a + b on exact fractions
Plus(a, b) == Normalize(Frac(a.n * b.d + b.n * a.d, a.d * b.d))

\* one call of onProgress(message, percent)
ProgressCall(message, percent) == [message |-> message, percent |-> percent]

\* getUIFont(config, bold) throws 'No fonts available' when none of the five
\* fonts it tries loads and figma.listAvailableFontsAsync() lists no font; the
\* fonts listed are the fonts that load
getUIFontThrows(cfg) == fonts = {}

\* removeExistingSpecimens(page): for each of the four names, the first child
\* of that name is removed
RemoveFirstNamed(children, frameName) ==
    LET k == FindByName(children, frameName)
    IN  IF k = 0 THEN children
        ELSE SubSeq(children, 1, k - 1) \o SubSeq(children, k + 1, Len(children))

\* faulty variant of removeExistingSpecimens: the mobile frame is forgotten
removeExistingSpecimens_KeepMobile(children) ==
    RemoveFirstNamed(RemoveFirstNamed(RemoveFirstNamed(children, DESKTOP_FRAME_NAME),
                                      EXPORTS_FRAME_NAME),
                     "Typography Specimen")

removeExistingSpecimens(children) ==
    RemoveFirstNamed(
        RemoveFirstNamed(
            RemoveFirstNamed(RemoveFirstNamed(children, DESKTOP_FRAME_NAME),
                             MOBILE_FRAME_NAME),
            EXPORTS_FRAME_NAME),
        "Typography Specimen")

\* createStyleBlock: the block of one style; its sample text takes the text
\* style of the style's name when textStyles holds one
createStyleBlock(style, created) ==
    LET k == FindByName(created, style.name)
    IN  [name |-> style.name,
         textStyleId |-> IF k = 0 THEN <<>> ELSE <<created[k].id>>]

\* the first style of every group of createCategorySection, the groups being
\* keyed by `${style.sizeName}/${style.fontStyle}`, in order of first insertion
FirstOfGroups(defs) ==
    SelectSeq([k \in 1..Len(defs) |->
                  IF \E j \in 1..(k - 1) :
                        /\ defs[j].sizeName = defs[k].sizeName
                        /\ defs[j].fontStyle = defs[k].fontStyle
                  THEN <<>> ELSE <<defs[k]>>],
              LAMBDA group : group /= <<>>)

\* createCategorySection, when no font call throws
createCategorySection(cat, defs, created) ==
    [name |-> getCategoryDisplayName(cat),
     children |-> [g \in 1..Len(FirstOfGroups(defs)) |->
                      createStyleBlock(FirstOfGroups(defs)[g][1], created)]]

\* createSingleSpecimen: the frame appended to the page and the calls of
\* onProgress, in order.  createHeader and createCategorySection throw when
\* getUIFont does; both calls sit in try blocks, and the frame then lacks
\* that child
createSingleSpecimen(cfg, defs, created, breakpoint, progressOffset, run) ==
    LET frameName == IF breakpoint = mobile THEN MOBILE_FRAME_NAME ELSE DESKTOP_FRAME_NAME
        breakpointLabel == IF breakpoint = mobile THEN "Mobile" ELSE "Desktop"
        filteredStyles == SelectSeq(defs, LAMBDA s : s.breakpoint = breakpoint)
        ofCategory(cat) == SelectSeq(filteredStyles, LAMBDA s : s.category = cat)
        shown == SelectSeq(Categories, LAMBDA cat : Len(ofCategory(cat)) > 0)
        header == IF getUIFontThrows(cfg) THEN <<>>
                  ELSE <<[name |-> "Header", children |-> <<>>]>>
        sections == IF getUIFontThrows(cfg) THEN <<>>
                    ELSE [c \in 1..Len(shown) |->
                             createCategorySection(shown[c], ofCategory(shown[c]), created)]
    IN  [frame |-> [name |-> frameName, breakpoint |-> breakpoint, run |-> run,
                    children |-> header \o sections],
         progress |->
             <<ProgressCall(<<"Creating ", breakpointLabel, " specimen...">>,
                            Frac(progressOffset, 1)),
               ProgressCall(<<"Creating ", breakpointLabel, " header...">>,
                            Frac(progressOffset + 5, 1))>>
             \o [c \in 1..Len(shown) |->
                    ProgressCall(<<"Creating ", breakpointLabel, " ", shown[c], " section...">>,
                                 Plus(Frac(progressOffset + 10, 1),
                                      Frac((IndexOf(Categories, shown[c])) * 35, 4)))]]

\* the arguments generate and other callers hand to createSpecimen as
\* exportData: nothing, a function, or an ExportData object (a sequence of
\* [format, text], in the order the formats were set)
NoExportData == [type |-> "undefined", data |-> <<>>]
FunctionValue == [type |-> "function", data |-> <<>>]
ExportDataObject(data) == [type |-> "object", data |-> data]

\* exportData[key]: the text set for key, as a one-element sequence, or <<>>
ExportOf(exportArg, key) ==
    LET hits == {k \in 1..Len(exportArg.data) : exportArg.data[k].format = key}
    IN  IF hits = {} THEN <<>> ELSE <<exportArg.data[CHOOSE k \in hits : TRUE].text>>

\* the exports of createExportsArtboard with a truthy content, in its order
ExportsShown(exportArg) ==
    SelectSeq(<<[key |-> "json", title |-> "JSON Tokens", filename |-> "typography-tokens.json"],
                [key |-> "yaml", title |-> "YAML Tokens", filename |-> "typography-tokens.yaml"],
                [key |-> "css", title |-> "CSS Variables", filename |-> "typography.css"],
                [key |-> "tailwind", title |-> "Tailwind Config",
                 filename |-> "tailwind.config.js"]>>,
              LAMBDA exp : /\ ExportOf(exportArg, exp.key) /= <<>>
                           /\ ExportOf(exportArg, exp.key)[1] /= <<>>)

\* exportData && (exportData.json || exportData.yaml || exportData.css ||
\* exportData.tailwind): a function has none of these properties
hasExports(exportArg) ==
    /\ exportArg.type /= "undefined"
    /\ Len(ExportsShown(exportArg)) > 0

\* createExportsArtboard: the frame is appended to the page first; getUIFont
\* then throws out of the call, or the header and one code block for each
\* export shown are added (the text of a block, cut at 8000 characters, is not
\* kept)
createExportsArtboard(cfg, exportArg, run) ==
    LET shown == ExportsShown(exportArg)
        frame == [name |-> EXPORTS_FRAME_NAME, breakpoint |-> null, run |-> run,
                  children |-> <<>>]
    IN  IF getUIFontThrows(cfg)
        THEN [frame |-> frame,
              progress |-> <<ProgressCall(<<"Creating exports artboard...">>, Frac(0, 1))>>,
              outcome |-> Throws(<<"No fonts available">>)]
        ELSE [frame |-> [frame EXCEPT !.children =
                            <<[name |-> "Header", children |-> <<>>]>>
                            \o [e \in 1..Len(shown) |->
                                   [name |-> <<shown[e].title, " (", shown[e].filename, ")">>,
                                    children |-> <<>>]]],
              progress |->
                  <<ProgressCall(<<"Creating exports artboard...">>, Frac(0, 1))>>
                  \o [e \in 1..Len(shown) |->
                         ProgressCall(<<"Adding ", shown[e].title, "...">>, Frac(20 * e, 1))]
                  \o <<ProgressCall(<<"Exports artboard complete">>, Frac(100, 1))>>,
              outcome |-> Returns(EXPORTS_FRAME_NAME)]

\* the breakpoint filters of the frames createSpecimen builds
SpecimenBreakpoints(cfg) ==
    IF cfg.responsive.enabled /\ cfg.responsive.mobile.enabled
    THEN <<desktop, mobile>>
    ELSE <<null>>

\* createSpecimen(config, styles, textStyles, exportData, onProgress) on the
\* page children: the children after the call, the calls of onProgress in
\* order (made only when withProgress, that is when onProgress is defined),
\* and the outcome
createSpecimen(children, cfg, defs, created, exportArg, withProgress, run) ==
    LET removed == removeExistingSpecimens(children)
        filters == SpecimenBreakpoints(cfg)
        single == [b \in 1..Len(filters) |->
                      createSingleSpecimen(cfg, defs, created, filters[b], 50 * (b - 1), run)]
        specimens == [b \in 1..Len(filters) |-> single[b].frame]
        specimenProgress == Flatten([b \in 1..Len(filters) |-> single[b].progress])
        artboard == createExportsArtboard(cfg, exportArg, run)
        exportsProgress ==
            <<ProgressCall(<<"Creating exports artboard...">>, Frac(85, 1))>>
            \o [p \in 1..Len(artboard.progress) |->
                   ProgressCall(artboard.progress[p].message,
                                Plus(Frac(85, 1),
                                     Times(artboard.progress[p].percent, Frac(1, 10))))]
        started == <<ProgressCall(<<"Creating specimen frames...">>, Frac(0, 1))>>
        calls == IF ~hasExports(exportArg)
                 THEN started \o specimenProgress
                      \o <<ProgressCall(<<"Specimen complete">>, Frac(100, 1))>>
                 ELSE IF artboard.outcome.threw
                      THEN started \o specimenProgress \o exportsProgress
                      ELSE started \o specimenProgress \o exportsProgress
                           \o <<ProgressCall(<<"Specimen complete">>, Frac(100, 1))>>
    IN  [children |-> IF hasExports(exportArg)
                      THEN removed \o specimens \o <<artboard.frame>>
                      ELSE removed \o specimens,
         progress |-> IF withProgress THEN calls ELSE <<>>,
         outcome |-> IF hasExports(exportArg) /\ artboard.outcome.threw
                     THEN artboard.outcome
                     ELSE Returns(specimens[1].name)]

-----------------------------------------------------------------------------
(* Host layer: the plugin's message handler and generate().  The UI disables
   its Generate button until the run's terminal message arrives, so one run
   is handled at a time; posted holds the messages posted since the handler
   took the last 'generate' message *)

\* generateExports: the ExportData object, a sequence of [format, text] in the
\* order the formats are set, or the TypeError generateTailwindConfig throws
generateExports(defs, cfg, t) ==
    LET json == IF cfg.exports.jsonTokens
                THEN <<[format |-> "json", text |-> generateJsonTokens(defs, cfg, t)]>>
                ELSE <<>>
        yaml == IF cfg.exports.yamlTokens
                THEN <<[format |-> "yaml", text |-> generateYamlTokens(defs, cfg, t)]>>
                ELSE <<>>
        css == IF cfg.exports.cssVars
               THEN <<[format |-> "css", text |-> generateCssVars(defs, cfg, t)]>>
               ELSE <<>>
        tailwind == IF cfg.exports.tailwindConfig
                    THEN <<[format |-> "tailwind",
                            text |-> generateTailwindConfig(defs, cfg, t)]>>
                    ELSE <<>>
    IN  IF tailwind /= <<>> /\ tailwind[1].text = TypeError
        THEN Throws(<<"Cannot read properties of undefined (reading 'toLowerCase')">>)
        ELSE Returns(json \o yaml \o css \o tailwind)

\* the UIMessage values generate posts
Progress(message, percent) ==
    [type |-> "progress", message |-> message, percent |-> percent]
GenerationComplete(stylesCount, data) ==
    [type |-> "generation-complete", stylesCount |-> stylesCount, exportData |-> data]
GenerationError(error) == [type |-> "generation-error", error |-> error]

\* the stages of generate that the configuration asks for, after stage `after`:
\* 1 text styles, 2 variables, 3 specimen, 4 exports and the final message
NextStage(cfg, after) ==
    IF after < 1 /\ cfg.exports.figmaOutputMode \in {"textStyles", "both"} THEN 1
    ELSE IF after < 2 /\ cfg.exports.figmaOutputMode \in {"variables", "both"} THEN 2
    ELSE IF after < 3 /\ cfg.exports.specimen THEN 3
    ELSE 4

\* faulty variant of Finish: the catch block posts nothing
Finish_SilentCatch(cfg, defs, t) ==
    LET call == generateExports(defs, cfg, t)
    IN  <<Progress(<<"Generating export files...">>, Frac(92, 1))>>
        \o (IF call.threw THEN <<>>
            ELSE <<GenerationComplete(Len(defs), call.value)>>)

\* the last statements of generate: the exports, then the final message, or
\* the message of the catch block when generateExports throws
Finish(cfg, defs, t) ==
    LET call == generateExports(defs, cfg, t)
    IN  <<Progress(<<"Generating export files...">>, Frac(92, 1))>>
        \o (IF call.threw
            THEN <<GenerationError(call.error)>>
            ELSE <<GenerationComplete(Len(defs), call.value)>>)

\* generate from the end of stage `after` to its next await or to its end: the
\* position reached and the messages posted on the way
Proceed(cfg, defs, t, after) ==
    CASE NextStage(cfg, after) = 1 ->
            [pc |-> "createAllTextStyles",
             posted |-> <<Progress(<<"Creating Figma text styles...">>, Frac(15, 1))>>]
      [] NextStage(cfg, after) = 2 ->
            [pc |-> "createTypographyVariables",
             posted |-> <<Progress(<<"Creating typography variables...">>, Frac(45, 1))>>]
      [] NextStage(cfg, after) = 3 ->
            [pc |-> "createSpecimen",
             posted |-> <<Progress(<<"Creating specimen frame...">>, Frac(65, 1))>>]
      [] NextStage(cfg, after) = 4 ->
            [pc |-> "onmessage", posted |-> Finish(cfg, defs, t)]

\* the fonts of the machine: none, Inter Regular alone (Bold falls back to
\* Regular and JetBrains Mono does not load), JetBrains Mono Regular alone, or
\* every font the defaults name
HostFonts ==
    {{},
     {FontName("Inter", Regular)},
     {FontName("JetBrains Mono", Regular)},
     {FontName("Inter", Regular), FontName("Inter", Bold),
      FontName("JetBrains Mono", Regular)}}

\* a text style and a frame that the user, or an earlier session, left
UserTextStyle(id, name) == [createTextStyle(id) EXCEPT !.name = name]
UserFrame(name) == [name |-> name, breakpoint |-> null, run |-> 0, children |-> <<>>]

\* the document when the plugin starts: empty, or holding a style of the
\* user's, two styles of an earlier session, a frame of the user's and the
\* three frames of an earlier session; no name occurs twice
HostDocuments ==
    {[localTextStyles |-> <<>>, pageChildren |-> <<>>, nextId |-> 1],
     [localTextStyles |->
          <<UserTextStyle(1, <<"B", "r", "a", "n", "d", "/", "L", "o", "g", "o">>),
            UserTextStyle(2, <<"B", "o", "d", "y", "/", "O", "l", "d">>),
            UserTextStyle(3, <<"B", "o", "d", "y", "/", "X", "s">>)>>,
      pageChildren |->
          <<UserFrame("Notes"), UserFrame(DESKTOP_FRAME_NAME), UserFrame(MOBILE_FRAME_NAME),
            UserFrame(EXPORTS_FRAME_NAME)>>,
      nextId |-> 4]}

\* the categories, scale and weights of the configurations that are run: body
\* in two weights, body and code, and display with one size more than names
HostShapes ==
    {[enabled |-> {"body"}, max |-> 14, weights |-> <<Regular, Bold>>],
     [enabled |-> {"body", "code"}, max |-> 14, weights |-> <<Regular>>],
     [enabled |-> {"display"}, max |-> 18, weights |-> <<Regular>>]}

\* the export options that are run: the defaults; text styles and variables
\* with the Tailwind config; variables alone, no specimen and no export
HostExports ==
    {[figmaOutputMode |-> "textStyles", specimen |-> TRUE, jsonTokens |-> TRUE,
      yamlTokens |-> TRUE, cssVars |-> FALSE, tailwindConfig |-> FALSE],
     [figmaOutputMode |-> "both", specimen |-> TRUE, jsonTokens |-> FALSE,
      yamlTokens |-> FALSE, cssVars |-> FALSE, tailwindConfig |-> TRUE],
     [figmaOutputMode |-> "variables", specimen |-> FALSE, jsonTokens |-> FALSE,
      yamlTokens |-> FALSE, cssVars |-> FALSE, tailwindConfig |-> FALSE]}

HostConfig(shape, responsive, exports) ==
    [categories |->
        [c \in CategorySet |->
            [DEFAULT_CONFIG.categories[c] EXCEPT
                !.enabled = c \in shape.enabled,
                !.scale = [method |-> "tailwind", min |-> 12, max |-> shape.max,
                           ratio |-> Frac(5, 4), steps |-> 2, rounding |-> 1],
                !.weights = shape.weights]],
     responsive |-> responsive,
     exports |-> exports]

\* responsive off; on with mobile variants; on without mobile variants
HostResponsive ==
    {[DEFAULT_CONFIG.responsive EXCEPT !.enabled = FALSE],
     DEFAULT_CONFIG.responsive,
     [DEFAULT_CONFIG.responsive EXCEPT !.mobile.enabled = FALSE]}

GenerateConfigs ==
    {HostConfig(shape, responsive, exports) :
        shape \in HostShapes,
        responsive \in {[DEFAULT_CONFIG.responsive EXCEPT !.enabled = FALSE],
                        DEFAULT_CONFIG.responsive},
        exports \in HostExports}

HostInit ==
    /\ pc = "onmessage"
    /\ fonts \in HostFonts
    /\ \E document \in HostDocuments :
          /\ localTextStyles = document.localTextStyles
          /\ pageChildren = document.pageChildren
          /\ nextId = document.nextId
    /\ posted = <<>>
    /\ textStyles = <<>>
    /\ runs = 0
    /\ now = 0
    /\ config = idle
    /\ styles = idle
    /\ i = 0
    /\ scaleCfg = idle
    /\ value = idle
    /\ sizes = idle
    /\ exportData = idle
    /\ IdleNamer

\* figma.ui.onmessage, case 'generate': generate(msg.config) up to its first
\* await
OnGenerate ==
    /\ pc = "onmessage"
    /\ runs < MaxRuns
    /\ \E cfg \in GenerateConfigs :
          LET styleDefs == generateStyleDefinitions(cfg)
              next == Proceed(cfg, styleDefs, now, 0)
          IN  /\ config' = cfg
              /\ styles' = styleDefs
              /\ posted' = <<Progress(<<"Generating styles...">>, Frac(0, 1)),
                             Progress(<<"Generated ">> \o IntegerText(Len(styleDefs))
                                          \o <<" style definitions">>,
                                      Frac(10, 1))>>
                           \o next.posted
              /\ pc' = next.pc
    /\ runs' = runs + 1
    /\ textStyles' = <<>>
    /\ i' = 0
    /\ UNCHANGED <<scaleCfg, value, sizes, category, mobileArgs, mobileSizes, namedSizes,
                   now, exportData, fonts, localTextStyles, nextId, pageChildren>>

\* faulty variant of CaughtPush: the Error leaves createAllTextStyles, whose
\* results so far are lost
CaughtPush_Rethrow(created, call, def) ==
    IF call.outcome.threw THEN <<>>
    ELSE Append(created, [id |-> call.outcome.value, name |-> def.name])

\* try { styles.push(await createOrUpdateTextStyle(def)) } catch { log }: the
\* TextStyle[] of createAllTextStyles after the turn for def
CaughtPush(created, call, def) ==
    IF call.outcome.threw THEN created
    ELSE Append(created, [id |-> call.outcome.value, name |-> def.name])

\* createAllTextStyles: one turn of its loop
CreateOrUpdateTextStyle ==
    /\ pc = "createAllTextStyles"
    /\ i < Len(styles)
    /\ LET def == styles[i + 1]
           call == createOrUpdateTextStyle(localTextStyles, nextId, def)
           percent == MathRound((i + 1) * 100, Len(styles))
       IN  /\ posted' = Append(posted,
                               Progress(<<"Creating style: ">> \o def.name,
                                        Plus(Frac(15, 1), Frac(percent, 4))))
           /\ localTextStyles' = call.local
           /\ nextId' = call.nextId
           /\ textStyles' = CaughtPush(textStyles, call, def)
    /\ i' = i + 1
    /\ UNCHANGED <<pc, scaleCfg, value, sizes, category, mobileArgs, mobileSizes,
                   namedSizes, config, styles, now, exportData, fonts, pageChildren, runs>>

\* createAllTextStyles returns; generate goes on with removeOrphanedStyles, up
\* to its next await or to its end
RemoveOrphanedStyles ==
    /\ pc = "createAllTextStyles"
    /\ i = Len(styles)
    /\ localTextStyles' =
           removeOrphanedStyles(localTextStyles,
                                {styles[k].name : k \in 1..Len(styles)})
    /\ LET next == Proceed(config, styles, now, 1)
       IN  /\ posted' = Append(posted,
                               Progress(<<"Created ">> \o IntegerText(Len(textStyles))
                                            \o <<" text styles">>,
                                        Frac(40, 1)))
                        \o next.posted
           /\ pc' = next.pc
    /\ UNCHANGED <<scaleCfg, value, i, sizes, category, mobileArgs, mobileSizes,
                   namedSizes, config, styles, now, exportData, fonts, nextId,
                   pageChildren, textStyles, runs>>

\* createTypographyVariables(styleDefs, config, onProgress) of core/variables:
\* the outcomes of a call.  It returns the number of variables or throws, and
\* leaves the text styles and the page alone; it is given no access to
\* postMessage but through its callback, which posts progress
createTypographyVariables(defs) ==
    {Returns(Len(defs)), Throws(<<"Unknown error">>)}

\* const varCount = await createTypographyVariables(...), then generate up to
\* its next await or to its end; a throw is caught by generate's catch block
CreateTypographyVariables ==
    /\ pc = "createTypographyVariables"
    /\ \E call \in createTypographyVariables(styles) :
          LET next == Proceed(config, styles, now, 2)
          IN  IF call.threw
              THEN /\ posted' = Append(posted, GenerationError(call.error))
                   /\ pc' = "onmessage"
              ELSE /\ posted' = Append(posted,
                                       Progress(<<"Created ">> \o IntegerText(call.value)
                                                    \o <<" variables">>,
                                                Frac(60, 1)))
                                \o next.posted
                   /\ pc' = next.pc
    /\ UNCHANGED <<scaleCfg, value, i, sizes, category, mobileArgs, mobileSizes,
                   namedSizes, config, styles, now, exportData, fonts, localTextStyles,
                   nextId, pageChildren, textStyles, runs>>

\* await createSpecimen(config, styleDefs, textStyles, (msg, pct) => ...): the
\* callback is the fourth argument, which createSpecimen takes as exportData,
\* and its onProgress is undefined
CreateSpecimen ==
    /\ pc = "createSpecimen"
    /\ LET call == createSpecimen(pageChildren, config, styles, textStyles, FunctionValue,
                                  FALSE, runs)
           next == Proceed(config, styles, now, 3)
           progress == [p \in 1..Len(call.progress) |->
                           Progress(call.progress[p].message,
                                    Plus(Frac(65, 1),
                                         Times(call.progress[p].percent, Frac(1, 4))))]
       IN  /\ pageChildren' = call.children
           /\ IF call.outcome.threw
              THEN /\ posted' = posted \o progress
                                \o <<GenerationError(call.outcome.error)>>
                   /\ pc' = "onmessage"
              ELSE /\ posted' = posted \o progress
                                \o <<Progress(<<"Specimen created">>, Frac(90, 1))>>
                                \o next.posted
                   /\ pc' = next.pc
    /\ UNCHANGED <<scaleCfg, value, i, sizes, category, mobileArgs, mobileSizes,
                   namedSizes, config, styles, now, exportData, fonts, localTextStyles,
                   nextId, textStyles, runs>>

GenerateNext ==
    \/ OnGenerate
    \/ CreateOrUpdateTextStyle
    \/ RemoveOrphanedStyles
    \/ CreateTypographyVariables
    \/ CreateSpecimen

SpecGenerate == HostInit /\ [][GenerateNext]_vars

-----------------------------------------------------------------------------
(* createSpecimen, called one call after another with the definitions of its
   configuration; posted holds the calls of onProgress of the last call *)

SpecimenConfigs ==
    {HostConfig(shape, responsive,
                [figmaOutputMode |-> "textStyles", specimen |-> TRUE, jsonTokens |-> TRUE,
                 yamlTokens |-> TRUE, cssVars |-> FALSE, tailwindConfig |-> FALSE]) :
        shape \in HostShapes, responsive \in HostResponsive}

\* exportData arguments: omitted, a function, an object with two texts, and an
\* object whose only text is the empty string
ExportDataArgs ==
    {NoExportData,
     FunctionValue,
     ExportDataObject(<<[format |-> "json", text |-> <<"{", "}">>],
                        [format |-> "tailwind", text |-> <<"module.exports = {}">>]>>),
     ExportDataObject(<<[format |-> "css", text |-> <<>>]>>)}

SpecimenInit ==
    /\ pc = "createSpecimen"
    /\ fonts \in HostFonts
    /\ \E document \in HostDocuments :
          /\ localTextStyles = document.localTextStyles
          /\ pageChildren = document.pageChildren
          /\ nextId = document.nextId
    /\ posted = <<>>
    /\ textStyles = <<>>
    /\ runs = 0
    /\ config = idle
    /\ styles = idle
    /\ sizes = idle
    /\ IdleScale
    /\ IdleNamer
    /\ IdleExport

\* one call createSpecimen(config, styles, textStyles, exportData, onProgress),
\* from its start to the settling of the promise it returns
CallCreateSpecimen ==
    /\ pc = "createSpecimen"
    /\ runs < MaxRuns
    /\ \E cfg \in SpecimenConfigs, exportArg \in ExportDataArgs, withProgress \in BOOLEAN :
          LET styleDefs == generateStyleDefinitions(cfg)
              call == createSpecimen(pageChildren, cfg, styleDefs, textStyles, exportArg,
                                     withProgress, runs + 1)
          IN  /\ config' = cfg
              /\ styles' = styleDefs
              /\ pageChildren' = call.children
              /\ posted' = call.progress
    /\ runs' = runs + 1
    /\ UNCHANGED <<pc, scaleCfg, value, i, sizes, category, mobileArgs, mobileSizes,
                   namedSizes, now, exportData, fonts, localTextStyles, nextId, textStyles>>

SpecimenNext == CallCreateSpecimen

SpecSpecimen == SpecimenInit /\ [][SpecimenNext]_vars

-----------------------------------------------------------------------------
(* Properties of the Scale Generator, under SpecScale *)

Elements(s) == {s[k] : k \in 1..Len(s)}

\* m is a multiple of `multiple` nearest to the integer x
IsNearestMultiple(m, x, multiple) ==
    /\ m % multiple = 0
    /\ 2 * (IF m >= x THEN m - x ELSE x - m) <= multiple

\* C1: for method=modular (min < max, ratio > 1, rounding in {1,2,4}) the sequence
\* generateScale returns is strictly ascending, starts at round(min, rounding)
\* and ends at round(max, rounding).
C1_ModularEndpoints ==
    (pc = "done" /\ scaleCfg.method = "modular") =>
        /\ Len(sizes) >= 1
        /\ IsAscending(sizes)
        /\ sizes[1] = roundTo(Frac(scaleCfg.min, 1), scaleCfg.rounding)
        /\ Last(sizes) = roundTo(Frac(scaleCfg.max, 1), scaleCfg.rounding)
        /\ IsNearestMultiple(sizes[1], scaleCfg.min, scaleCfg.rounding)
        /\ IsNearestMultiple(Last(sizes), scaleCfg.max, scaleCfg.rounding)

\* a modular scale of three or more sizes whose progression misses the rounded max
C1_Witness ==
    /\ pc = "done"
    /\ scaleCfg.method = "modular"
    /\ Len(sizes) >= 3
    /\ ModularLoop(scaleCfg, [sizes |-> <<>>, value |-> Frac(scaleCfg.min, 1)]) /= sizes

\* C4: for method=linear (min < max, steps >= 2) generateScale returns at most
\* `steps` elements, strictly ascending.
C4_LinearBounded ==
    (pc = "done" /\ scaleCfg.method = "linear") =>
        /\ Len(sizes) <= scaleCfg.steps
        /\ IsAscending(sizes)

\* a linear scale that lost samples to the dedup and still has several sizes
C4_Witness ==
    /\ pc = "done"
    /\ scaleCfg.method = "linear"
    /\ Len(sizes) >= 2
    /\ Len(sizes) < scaleCfg.steps

C5_Buckets == {12, 14, 16, 18, 20, 24, 30, 36, 48, 60, 72, 96, 128}

\* C5: for method=tailwind generateScale returns exactly the buckets within
\* [min, max], ascending, whatever rounding, ratio and steps are.
C5_TailwindBuckets ==
    (pc = "done" /\ scaleCfg.method = "tailwind") =>
        /\ IsAscending(sizes)
        /\ Elements(sizes) = {b \in C5_Buckets : scaleCfg.min <= b /\ b <= scaleCfg.max}
        /\ \A r \in Roundings, q \in ModelRatios, n \in 2..MaxSteps :
              generateScale([scaleCfg EXCEPT !.rounding = r, !.ratio = q, !.steps = n])
                  = sizes

\* a tailwind scale whose range starts on a bucket and keeps several of them
C5_Witness ==
    /\ pc = "done"
    /\ scaleCfg.method = "tailwind"
    /\ scaleCfg.min \in C5_Buckets
    /\ Len(sizes) >= 3

\* C17: for every ScaleConfig with min < max, ratio > 1 and rounding in {1,2,4},
\* a zero or negative min included, generateScale with method=modular terminates.
C17_ModularTerminates == (scaleCfg.method = "modular") ~> (pc = "done")

-----------------------------------------------------------------------------
(* Properties of the Size Namer and of applyMobileScale, under SpecNamer *)

\* the number in a heading name (H1..H6, D1..D3); 0 for any other name
SuffixNumber(name) ==
    IF Len(name) = 2 /\ name[1] \in {"H", "D"}
                     /\ name[2] \in {"1", "2", "3", "4", "5", "6"}
    THEN CHOOSE n \in 1..6 : NumberToString(n) = <<name[2]>>
    ELSE 0

\* C3: for title and display, mapSizesToNames on an ascending size sequence
\* gives the largest size the smallest numeric suffix (H1, D1), and the suffix
\* grows as the size shrinks.
C3_LargestIsFirstHeading ==
    (/\ pc = "applyMobileScale"
     /\ category \in {"title", "display"}
     /\ Len(sizes) >= 1
     /\ Len(sizes) <= Len(NamePool(category))
     /\ IsAscending(sizes)) =>
        /\ SuffixNumber(Last(namedSizes).name) = 1
        /\ \A j, k \in 1..Len(namedSizes) :
              namedSizes[j].size < namedSizes[k].size =>
                  SuffixNumber(namedSizes[j].name) > SuffixNumber(namedSizes[k].name)

\* C8: no size returned by applyMobileScale(sizes, multiplier, rounding, maxCap)
\* exceeds maxCap.
C8_CapIsUpperBound ==
    (pc = "mapMobileSizes" /\ mobileArgs.maxCap /= <<>>) =>
        \A k \in 1..Len(mobileSizes) : mobileSizes[k] <= mobileArgs.maxCap[1]

\* result[k].size = input[k] at every position, and the lengths agree
SameSizes(named, s) ==
    /\ Len(named) = Len(s)
    /\ \A k \in 1..Len(s) : named[k].size = s[k]

\* C10: mapSizesToNames returns a sequence of the length of its input, in input
\* order, with result[i].size = sizes[i] (for the desktop and the mobile sizes).
C10_SameLengthAndSizes ==
    /\ pc = "applyMobileScale" => SameSizes(namedSizes, sizes)
    /\ pc = "mobileNamed" => SameSizes(namedSizes, mobileSizes)

\* more sizes than the display pool has names, named
C10_Witness ==
    /\ pc = "applyMobileScale"
    /\ category = "display"
    /\ Len(sizes) > Len(DISPLAY_SIZE_NAMES)
    /\ Len(namedSizes) = Len(sizes)

\* the names of a named-size sequence, in order
Names(named) == [k \in 1..Len(named) |-> named[k].name]

\* C11: a size sequence of one element is named, for each of the four
\* categories, with exactly one name, a member of the category's name pool
\* (desktop sizes and mobile sizes alike).
C11_SingleSizeNamed ==
    /\ (pc = "applyMobileScale" /\ Len(sizes) = 1) =>
           /\ Len(namedSizes) = 1
           /\ namedSizes[1].name \in Elements(NamePool(category))
    /\ (pc = "mobileNamed" /\ Len(mobileSizes) = 1) =>
           /\ Len(namedSizes) = 1
           /\ namedSizes[1].name \in Elements(NamePool(category))

\* a single title size, named H1
C11_Witness ==
    /\ pc = "applyMobileScale"
    /\ category = "title"
    /\ Len(sizes) = 1
    /\ Names(namedSizes) = <<<<"H", "1">>>>

\* names is a run of consecutive pool entries, in pool order
IsWindowOf(names, pool) ==
    \E start \in 1..Len(pool) :
        /\ start + Len(names) - 1 <= Len(pool)
        /\ names = SubSeq(pool, start, start + Len(names) - 1)

\* C19: for body and code and 1 <= count <= pool length, the names are exactly
\* count names, a contiguous window of the pool in pool order, containing 'Base'.
C19_WindowAroundBase ==
    (/\ pc = "applyMobileScale"
     /\ category \in {"body", "code"}
     /\ Len(sizes) >= 1
     /\ Len(sizes) <= Len(NamePool(category))) =>
        LET names == getSizeNamesForCategory(category, Len(sizes))
        IN  /\ Len(names) = Len(sizes)
            /\ names = Names(namedSizes)
            /\ IsWindowOf(names, NamePool(category))
            /\ <<"B", "a", "s", "e">> \in Elements(names)

\* two code sizes: the window is cut on the left of 'Base', not centred on it
C19_Witness ==
    /\ pc = "applyMobileScale"
    /\ category = "code"
    /\ Len(sizes) = 2
    /\ Names(namedSizes) = <<<<"S", "m">>, <<"B", "a", "s", "e">>>>

-----------------------------------------------------------------------------
(* Properties of generateStyleDefinitions, under SpecStyles *)

\* C2: the name fields of the returned StyleDefinitions are pairwise distinct,
\* for any scale method, any number of sizes per category, responsive on or off.
C2_NamesDistinct ==
    pc = "generated" =>
        \A j, k \in 1..Len(styles) : j /= k => styles[j].name /= styles[k].name

\* C7: with responsive and mobile enabled and mobileMaxSizes.body = 20, every
\* mobile body StyleDefinition has fontSize <= 20.
C7_MobileBodyCapped ==
    (/\ pc = "generated"
     /\ config.responsive.enabled
     /\ config.responsive.mobile.enabled
     /\ config.responsive.mobileMaxSizes.body = 20) =>
        \A k \in 1..Len(styles) :
            (styles[k].category = "body" /\ styles[k].breakpoint = mobile) =>
                styles[k].fontSize <= 20

\* a body scale reaching 36 at multiplier 1, whose mobile sizes were cut to 20
C7_Witness ==
    /\ pc = "generated"
    /\ config.responsive.enabled
    /\ config.responsive.mobile.enabled
    /\ config.responsive.mobileMaxSizes.body = 20
    /\ config.responsive.mobile.scaleMultiplier = Frac(100, 100)
    /\ \E j, k \in 1..Len(styles) :
          /\ styles[j].category = "body" /\ styles[j].breakpoint = desktop
          /\ styles[j].fontSize = 36
          /\ styles[k].category = "body" /\ styles[k].breakpoint = mobile
          /\ styles[k].sizeName = styles[j].sizeName
          /\ styles[k].fontSize = 20

\* the number of '/'-separated segments of a name
SegmentCount(name) == Cardinality({k \in 1..Len(name) : name[k] = "/"}) + 1

\* the names generated for one category
CategoryNames(defs, cat) ==
    {defs[k].name : k \in {j \in 1..Len(defs) : defs[j].category = cat}}

\* the configuration with the category cut down to its first weight
WithFirstWeightOnly(cfg, cat) ==
    [cfg EXCEPT !.categories[cat].weights = <<cfg.categories[cat].weights[1]>>]

\* C9: a category with exactly one weight produces names with no weight segment
\* (breakpoint, category and size only); with two or more weights and the same
\* sizes, the names are those names, each followed by a weight segment.
C9_WeightSegment ==
    pc = "generated" =>
        /\ \A k \in 1..Len(styles) :
              LET st == styles[k]
                  base == IF st.breakpoint = null THEN 2 ELSE 3
              IN  IF Len(config.categories[st.category].weights) = 1
                  THEN /\ SegmentCount(st.name) = base
                       /\ ~endsWith(st.name, <<"/">> \o st.fontStyle)
                  ELSE /\ SegmentCount(st.name) = base + 1
                       /\ endsWith(st.name, <<"/">> \o st.fontStyle)
        /\ \A cat \in CategorySet :
              LET weights == config.categories[cat].weights
              IN  (config.categories[cat].enabled /\ Len(weights) >= 2) =>
                      CategoryNames(styles, cat) =
                          {n \o <<"/">> \o weights[w] :
                              n \in CategoryNames(
                                  generateStyleDefinitions(
                                      WithFirstWeightOnly(config, cat)),
                                  cat),
                              w \in 1..Len(weights)}

\* one run with a single-weight category and a multi-weight category, both named
C9_Witness ==
    /\ pc = "generated"
    /\ \E j, k \in 1..Len(styles) :
          /\ Len(config.categories[styles[j].category].weights) = 1
          /\ Len(config.categories[styles[k].category].weights) = 2
          /\ SegmentCount(styles[k].name) = SegmentCount(styles[j].name) + 1

\* the definitions of one (category, breakpoint, weight), in output order
StylesOf(defs, cat, breakpoint, weight) ==
    SelectSeq(defs, LAMBDA d : /\ d.category = cat
                               /\ d.breakpoint = breakpoint
                               /\ d.fontStyle = weight)

\* breakpoints x sizes x weights of one category, 0 when it is disabled
ExpectedCount(cfg, cat) ==
    IF cfg.categories[cat].enabled
    THEN (IF cfg.responsive.enabled THEN 2 ELSE 1)
         * Len(generateScale(cfg.categories[cat].scale))
         * Len(cfg.categories[cat].weights)
    ELSE 0

\* C12: generateStyleDefinitions returns one StyleDefinition per (enabled
\* category, breakpoint, size, weight) and none for a disabled category; its
\* length is the sum over enabled categories of breakpoints x sizes x weights.
C12_OnePerCombination ==
    pc = "generated" =>
        /\ Len(styles) = ExpectedCount(config, "display") + ExpectedCount(config, "title")
                          + ExpectedCount(config, "body") + ExpectedCount(config, "code")
        /\ \A k \in 1..Len(styles) :
              LET categoryConfig == config.categories[styles[k].category]
              IN  /\ categoryConfig.enabled
                  /\ styles[k].fontStyle \in Elements(categoryConfig.weights)
                  /\ styles[k].breakpoint \in
                        (IF config.responsive.enabled THEN {desktop, mobile} ELSE {null})
        /\ \A cat \in CategorySet :
              config.categories[cat].enabled =>
                  \A b \in (IF config.responsive.enabled THEN {desktop, mobile} ELSE {null}),
                     w \in Elements(config.categories[cat].weights) :
                      Len(StylesOf(styles, cat, b, w))
                          = Len(generateScale(config.categories[cat].scale))

\* a responsive run with three categories off and two weights on the fourth
C12_Witness ==
    /\ pc = "generated"
    /\ config.responsive.enabled
    /\ Cardinality({cat \in CategorySet : config.categories[cat].enabled}) = 1
    /\ Len(styles) >= 4
    /\ \E k \in 1..Len(styles) : Len(config.categories[styles[k].category].weights) = 2

\* C13: with responsive.enabled false every StyleDefinition has breakpoint null
\* and a name that begins with the category (no breakpoint segment); with
\* responsive.enabled true its breakpoint is desktop or mobile and its name
\* begins with 'Desktop/' or 'Mobile/' accordingly.
C13_BreakpointSegment ==
    pc = "generated" =>
        \A k \in 1..Len(styles) :
            LET st == styles[k]
                weighted == IF Len(config.categories[st.category].weights) > 1 THEN 1 ELSE 0
                categoryPart == getCategoryDisplayName(st.category) \o <<"/">>
            IN  IF config.responsive.enabled
                THEN /\ st.breakpoint \in {desktop, mobile}
                     /\ SegmentCount(st.name) = 3 + weighted
                     /\ st.breakpoint = desktop =>
                            startsWith(st.name, <<"D", "e", "s", "k", "t", "o", "p", "/">>
                                                    \o categoryPart)
                     /\ st.breakpoint = mobile =>
                            startsWith(st.name, <<"M", "o", "b", "i", "l", "e", "/">>
                                                    \o categoryPart)
                ELSE /\ st.breakpoint = null
                     /\ SegmentCount(st.name) = 2 + weighted
                     /\ startsWith(st.name, categoryPart)

\* a responsive run that produced a definition named 'Mobile/Title/...'
C13_Witness ==
    /\ pc = "generated"
    /\ config.responsive.enabled
    /\ \E k \in 1..Len(styles) :
          /\ styles[k].breakpoint = mobile
          /\ startsWith(styles[k].name,
                        <<"M", "o", "b", "i", "l", "e", "/", "T", "i", "t", "l", "e", "/">>)

\* C14: with responsive.enabled true and responsive.mobile.enabled false, no
\* definition with breakpoint mobile is returned.
C14_NoMobileWhenMobileDisabled ==
    (/\ pc = "generated"
     /\ config.responsive.enabled
     /\ ~config.responsive.mobile.enabled) =>
        \A k \in 1..Len(styles) : styles[k].breakpoint /= mobile

\* C16: every StyleDefinition has fontSize > 0, at both breakpoints, for every
\* configuration whose scales have min < max, ratio > 1, rounding in {1,2,4}.
C16_FontSizePositive ==
    pc = "generated" => \A k \in 1..Len(styles) : styles[k].fontSize > 0

\* C18: every StyleDefinition has a defined, non-empty sizeName, whatever the
\* number of sizes of its category.
C18_SizeNameDefined ==
    pc = "generated" =>
        \A k \in 1..Len(styles) :
            styles[k].sizeName /= undefined /\ Len(styles[k].sizeName) > 0

\* the size names of a sequence of definitions, in order
SizeNames(defs) == [k \in 1..Len(defs) |-> defs[k].sizeName]

\* C20: with responsive and mobile enabled, the mobile definitions of every
\* enabled category carry the size names of its desktop definitions, position
\* by position, whatever the multiplier and the cap.
C20_MobileNamesAsDesktop ==
    (/\ pc = "generated"
     /\ config.responsive.enabled
     /\ config.responsive.mobile.enabled) =>
        \A cat \in CategorySet :
            \A w \in Elements(config.categories[cat].weights) :
                SizeNames(StylesOf(styles, cat, mobile, w))
                    = SizeNames(StylesOf(styles, cat, desktop, w))

\* the cap collapsed two distinct desktop body sizes to one mobile size, under
\* two different size names
C20_Witness ==
    /\ pc = "generated"
    /\ config.responsive.enabled
    /\ config.responsive.mobile.enabled
    /\ \E j, k \in 1..Len(styles) :
          /\ j /= k
          /\ styles[j].category = "body" /\ styles[k].category = "body"
          /\ styles[j].breakpoint = mobile /\ styles[k].breakpoint = mobile
          /\ styles[j].fontStyle = styles[k].fontStyle
          /\ styles[j].fontSize = styles[k].fontSize
          /\ styles[j].sizeName /= styles[k].sizeName

\* C21: in a responsive run, the mobile fontSize of a named size never exceeds
\* the desktop fontSize of the same category, weight and size name (compared
\* position by position, since the mobile names are the desktop names in order),
\* for every scale method, rounding and multiplier in (0, 1].
C21_MobileNotAboveDesktop ==
    (/\ pc = "generated"
     /\ config.responsive.enabled) =>
        \A cat \in CategorySet :
            \A w \in Elements(config.categories[cat].weights) :
                LET onDesktop == StylesOf(styles, cat, desktop, w)
                    onMobile == StylesOf(styles, cat, mobile, w)
                IN  \A p \in 1..MathMin(Len(onDesktop), Len(onMobile)) :
                        onMobile[p].sizeName = onDesktop[p].sizeName =>
                            onMobile[p].fontSize <= onDesktop[p].fontSize

-----------------------------------------------------------------------------
(* Properties of the export formatters, under SpecExport *)

\* C15: two calls of one export formatter with the same (styles, config) return
\* the same string, whatever the time of the call.
C15_SameInputsSameString ==
    \A j, k \in 1..Len(exportData) :
        exportData[j].format = exportData[k].format =>
            exportData[j].text = exportData[k].text

RECURSIVE AtPath(_, _)
\* the value found in node by following parts, or undefined
AtPath(node, parts) ==
    IF Len(parts) = 0 THEN node
    ELSE IF node.type = "object" /\ HasMember(node, parts[1])
         THEN AtPath(GetMember(node, parts[1]), Tail(parts))
         ELSE undefined

\* node has the shape createDesignToken gives: value, type, description, mappings
IsToken(node) ==
    /\ node.type = "object"
    /\ [k \in 1..Len(node.members) |-> node.members[k].key]
           = << <<"v", "a", "l", "u", "e">>, <<"t", "y", "p", "e">>,
                <<"d", "e", "s", "c", "r", "i", "p", "t", "i", "o", "n">>,
                <<"m", "a", "p", "p", "i", "n", "g", "s">> >>

RECURSIVE SumOver(_, _)
SumOver(f, n) == IF n = 0 THEN 0 ELSE f[n] + SumOver(f, n - 1)

RECURSIVE CountTokens(_)
\* the number of tokens in the tree below node, tokens under tokens included
CountTokens(node) ==
    IF node.type /= "object" THEN 0
    ELSE (IF IsToken(node) THEN 1 ELSE 0)
         + SumOver([k \in 1..Len(node.members) |-> CountTokens(node.members[k].value)],
                   Len(node.members))

\* C22: in the object generateJsonTokens builds, every StyleDefinition is the
\* token at the path of its jsPath segments, that token has no token below it,
\* and the number of tokens equals the number of StyleDefinitions.
C22_OneTokenPerDefinition ==
    (\E c \in 1..Len(exportData) : exportData[c].format = "json") =>
        LET tokens == buildTokenStructure(styles)
        IN  /\ \A k \in 1..Len(styles) :
                  LET found == AtPath(tokens, Split(styles[k].mappings.jsPath, "."))
                  IN  /\ found = createDesignToken(styles[k])
                      /\ CountTokens(found) = 1
            /\ CountTokens(tokens) = Len(styles)


-----------------------------------------------------------------------------
(* Properties of the message handler and of generate(), under SpecGenerate *)

\* the positions of the terminal messages among messages
Terminals(messages) ==
    {k \in 1..Len(messages) :
        messages[k].type \in {"generation-complete", "generation-error"}}

Succeeded(defs, n) ==
    SelectSeq(SubSeq(defs, 1, n),
              LAMBDA def : ~loadFontWithFallback(def.fontFamily, def.fontStyle).threw)

\* C24: in createAllTextStyles a definition whose font cannot be loaded does not
\* stop the loop: after i turns the list holds, in order, a style for each of
\* the first i definitions that succeeded and for no other, each being a local
\* text style of the definition's name; and no 'generation-error' of the run
\* carries the font error.
C24_FailureSkipsOneDefinition ==
    (/\ runs > 0
     /\ config.exports.figmaOutputMode \in {"textStyles", "both"}) =>
        LET done == IF pc = "createAllTextStyles" THEN i ELSE Len(styles)
            succeeded == Succeeded(styles, done)
        IN  /\ Len(textStyles) = Len(succeeded)
            /\ \A k \in 1..Len(textStyles) :
                  /\ textStyles[k].name = succeeded[k].name
                  /\ \E s \in 1..Len(localTextStyles) :
                        /\ localTextStyles[s].id = textStyles[k].id
                        /\ localTextStyles[s].name = textStyles[k].name
            /\ \A k \in 1..Len(posted) :
                  posted[k].type = "generation-error" =>
                      posted[k].error[1] /= "Could not load font: "

\* a definition failed, a later one succeeded, and the run went on to its end
\* with 'generation-complete'
C24_Witness ==
    /\ pc = "onmessage"
    /\ runs > 0
    /\ config.exports.figmaOutputMode \in {"textStyles", "both"}
    /\ posted[Len(posted)].type = "generation-complete"
    /\ \E j, k \in 1..Len(styles) :
          /\ j < k
          /\ loadFontWithFallback(styles[j].fontFamily, styles[j].fontStyle).threw
          /\ ~loadFontWithFallback(styles[k].fontFamily, styles[k].fontStyle).threw
          /\ \E t \in 1..Len(textStyles) : textStyles[t].name = styles[k].name

\* C25: a turn of createAllTextStyles whose definition has no text style yet
\* and whose font loading throws leaves the local text styles as they were.
C25_FailedCreateLeavesNoStyle ==
    [][(/\ pc = "createAllTextStyles"
        /\ i < Len(styles)
        /\ i' = i + 1
        /\ FindByName(localTextStyles, styles[i + 1].name) = 0
        /\ loadFontWithFallback(styles[i + 1].fontFamily, styles[i + 1].fontStyle).threw)
       => localTextStyles' = localTextStyles]_vars

C27_OneStylePerName ==
    \A j, k \in 1..Len(localTextStyles) :
        localTextStyles[j].name = localTextStyles[k].name => j = k

\* the second run is creating text styles and has just updated, in place, a
\* style that was there before the run
C27_Witness ==
    /\ pc = "createAllTextStyles"
    /\ runs = 2
    /\ Len(textStyles) = 1
    /\ i = 1
    /\ textStyles[1].name = styles[1].name
    /\ textStyles[1].id < nextId - 1

-----------------------------------------------------------------------------
(* Properties of createSpecimen, under SpecSpecimen *)

\* the specimen frames on the page that the call numbered run built
SpecimenFramesOf(children, run) ==
    {f \in 1..Len(children) :
        /\ children[f].name \in {DESKTOP_FRAME_NAME, MOBILE_FRAME_NAME}
        /\ children[f].run = run}

\* C29: every StyleDefinition of the configuration is selected by exactly one
\* of the specimen frames that createSpecimen builds for it: its breakpoint is
\* the breakpoint filter of exactly one frame of the call.
C29_EveryStyleInOneFrame ==
    runs > 0 =>
        \A k \in 1..Len(styles) :
            Cardinality({f \in SpecimenFramesOf(pageChildren, runs) :
                            pageChildren[f].breakpoint = styles[k].breakpoint}) = 1

\* the number of children of the page with the name frameName
FramesNamed(children, frameName) ==
    Cardinality({f \in 1..Len(children) : children[f].name = frameName})

\* C30: from a page with at most one frame per specimen name, after any
\* sequence of createSpecimen calls the page holds at most one frame named
\* 'Desktop Specimen', one named 'Mobile Specimen' and one named 'Code Exports',
\* and each of them was built by the last call.
C30_OneFramePerName ==
    /\ FramesNamed(pageChildren, DESKTOP_FRAME_NAME) <= 1
    /\ FramesNamed(pageChildren, MOBILE_FRAME_NAME) <= 1
    /\ FramesNamed(pageChildren, EXPORTS_FRAME_NAME) <= 1
    /\ \A f \in 1..Len(pageChildren) :
          pageChildren[f].name \in {DESKTOP_FRAME_NAME, MOBILE_FRAME_NAME, EXPORTS_FRAME_NAME}
              => pageChildren[f].run = runs

\* the second call replaced three frames of the first call by a single desktop
\* frame, next to the user's own frame
C30_Witness ==
    /\ runs = 2
    /\ Len(pageChildren) = 2
    /\ pageChildren[1].name = "Notes"
    /\ pageChildren[2].name = DESKTOP_FRAME_NAME
    /\ pageChildren[2].run = 2
    /\ Len(pageChildren[2].children) > 1

=============================================================================
